---- MODULE Spec2Model ----
(***************************************************************************)
(* State-machine model of the token-lifecycle client of the NFT minting    *)
(* API: mint.js, retrieve.js, get-item.js, the confirmation loop of        *)
(* deploy/scripts/deploy.js and the GameItem contract they talk to.        *)
(*                                                                         *)
(* JavaScript values are records of strings, so that values of different   *)
(* JavaScript types stay comparable: [t |-> typeof, v |-> printed value].  *)
(***************************************************************************)
EXTENDS Integers, Sequences, FiniteSets, TLC

VARIABLES
    chain,        \* the ledger: the contract's storage and the transactions sent to it
    files,        \* deployment.json and polygon_private_key.txt
    deployRun,    \* one run of deploy/scripts/deploy.js
    mintCall,     \* one call of mint()
    getItemCall,  \* one call of getItem()
    retrieveCall, \* one call of retrieve()
    verifyCall,   \* one call of verifyOwner()
    server,       \* the HTTP server of server.js and the request it is serving
    world         \* two GameItem deployments and the mint() calls running side by side

vars == <<chain, files, deployRun, mintCall, getItemCall, retrieveCall, verifyCall, server, world>>

-----------------------------------------------------------------------------
(* Bounds of the model *)

\* mint() calls started in one behaviour
MaxMintCalls == 2
\* tokens a ledger holds when a read-only behaviour starts
MaxTokens == 2
\* requests the server takes in one behaviour
MaxRequests == 2
\* transfers and mints the ledger takes while one retrieve() runs
MaxLedgerChanges == 2
\* tokens a contract close to its cap is short of MAX_SUPPLY at most
SupplyMargin == 15

(* Program constants *)

\* GameItem.sol: uint256 public constant MAX_SUPPLY
MAX_SUPPLY == 1000000
\* deploy.js: const maxAttempts = 60
maxAttempts == 60

-----------------------------------------------------------------------------
(* JavaScript values *)

Absent == "#absent"          \* a key an object does not have
Str(s) == [t |-> "string", v |-> s]
Num(s) == [t |-> "number", v |-> s]
Undefined == [t |-> "undefined", v |-> "undefined"]

\* !x for the values above
Falsy(x) ==
    \/ x.t \in {"undefined", "null"}
    \/ x.t = "string" /\ x.v = ""
    \/ x.t = "number" /\ x.v \in {"0", "NaN"}

\* Addresses ethers.isAddress accepts. "0xAa" is the checksummed spelling and
\* "0xaa" the lower-case spelling of one account, "0xBb"/"0xbb" of another.
WellFormedAddresses == {"0xAa", "0xaa", "0xBb", "0xbb", "0xC0", "0xC1"}

isAddress(x) == x.t = "string" /\ x.v \in WellFormedAddresses

toLowerCase(a) ==
    CASE a = "0xAa" -> "0xaa"
      [] a = "0xBb" -> "0xbb"
      [] OTHER -> a

\* The spelling the contract reports (ethers returns checksummed addresses).
getAddress(a) ==
    CASE a = "0xaa" -> "0xAa"
      [] a = "0xbb" -> "0xBb"
      [] OTHER -> a

-----------------------------------------------------------------------------
(* Traits, metadata and the strings that carry them *)

\* A traits argument: t is typeof (with "null" for null); an object has the
\* keys name, description and attack, each Absent or a printed value.
\* "undefined" is a key set to undefined, "NaN" the number NaN.
Traits(t, n, d, a) == [t |-> t, name |-> n, description |-> d, attack |-> a]

NullTraits == Traits("null", Absent, Absent, Absent)
NumberTraits == Traits("number", Absent, Absent, Absent)
EmptyTraits == Traits("object", Absent, Absent, Absent)
AbsentTraits == Traits("absent", Absent, Absent, Absent)

TraitObjects ==
    { Traits("object", "Sword", Absent, "100"),
      Traits("object", Absent, "A blade", "100"),
      Traits("object", Absent, Absent, "NaN"),
      Traits("object", "Sword", "undefined", "100") }

\* Traits every key of which JSON can carry.
JsonRepresentable(T) ==
    /\ T.t = "object"
    /\ \A v \in {T.name, T.description, T.attack} : v \notin {"NaN", "undefined"}

\* A JSON object as parsed: the metadata keys, each Absent or a value.
Metadata(n, d, i, T) == [name |-> n, description |-> d, image |-> i, traits |-> T]

NoObj == Metadata(Absent, Absent, Absent, AbsentTraits)

\* A string is a sequence of tokens; the token "#obj" stands for the text of
\* the members of the JSON object obj.
Blob(text, obj) == [text |-> text, obj |-> obj]

NoBlob == Blob(<<>>, NoObj)

\* JSON.stringify of one member value: undefined is dropped, NaN becomes null.
JsonValue(v) ==
    CASE v = "undefined" -> Absent
      [] v = "NaN" -> "null"
      [] OTHER -> v

JsonTraits(T) ==
    Traits(T.t, JsonValue(T.name), JsonValue(T.description), JsonValue(T.attack))

\* x || dflt for a member value
OrElse(v, dflt) == IF v \in {Absent, "undefined", "null", "", "0", "NaN"} THEN dflt ELSE v

\* buildMetadata with an empty description for traits that have none.
buildMetadataEmptyDescription(imageUrl, traits) ==
    Metadata(OrElse(traits.name, "Game Item"),
             OrElse(traits.description, ""),
             imageUrl.v,
             traits)

\* mint.js: const metadata = { name: traits.name || 'Game Item', ... }
buildMetadata(imageUrl, traits) ==
    Metadata(OrElse(traits.name, "Game Item"),
             OrElse(traits.description, "A game item NFT"),
             imageUrl.v,
             traits)

\* JSON.stringify(metadata)
JsonStringify(m) ==
    Blob(<<"{", "#obj", "}">>,
         Metadata(JsonValue(m.name), JsonValue(m.description), JsonValue(m.image),
                  JsonTraits(m.traits)))

-----------------------------------------------------------------------------
(* The GameItem contract *)

ContractAddress == "0xC0"
\* The account that deployed the contract, and another account.
OwnerAccount == "0xAa"
OtherAccount == "0xBb"

NoTx == [status |-> "none", fn |-> "", sender |-> "", to |-> "", metadata |-> NoBlob,
         tokenId |-> 0]

\* constructor: _nextTokenId = 1, Ownable(initialOwner)
GameItem(emits) ==
    [ _nextTokenId |-> 1,
      owners |-> <<>>,          \* ERC721 _owners: tokenId -> address
      tokenURIs |-> <<>>,       \* ERC721URIStorage _tokenURIs: tokenId -> string
      owner |-> OwnerAccount,   \* Ownable owner
      emitsTransfer |-> emits,  \* whether a mint's receipt carries a Transfer log
      enumerable |-> "none",    \* the order tokenOfOwnerByIndex reports, "none" without
                                \* the Enumerable extension (GameItem has none)
      tx |-> NoTx,              \* the mint transaction submitted last
      deployTx |-> "none" ]     \* the deployment transaction: none, pending, success, reverted

\* A contract whose entry points carry no modifier.
onlyOwnerAnyone(c, sender) == TRUE

\* modifier onlyOwner
onlyOwner(c, sender) == sender = c.owner

\* Whether mint / safeMint / mintWithMetadata reverts when `sender` calls it.
mintReverts(c, sender) == ~onlyOwner(c, sender) \/ ~(c._nextTokenId <= MAX_SUPPLY)

\* GameItemMint leaving the counter where it was.
GameItemMintKeepsCounter(c, to, metadata) ==
    LET tokenId == c._nextTokenId
    IN [c EXCEPT !.owners = (tokenId :> to) @@ @,
                 !.tokenURIs = (tokenId :> metadata) @@ @]

\* function mint(address to, string memory metadata): the storage after the call.
GameItemMint(c, to, metadata) ==
    LET tokenId == c._nextTokenId
    IN [c EXCEPT !._nextTokenId = tokenId + 1,
                 !.owners = (tokenId :> to) @@ @,
                 !.tokenURIs = (tokenId :> metadata) @@ @]

\* totalSupply() answering the next token id.
totalSupplyNextId(c) == c._nextTokenId

\* function totalSupply()
totalSupply(c) == c._nextTokenId - 1

\* ERC721 _requireOwned: ownerOf and tokenURI revert for a token never minted.
exists(c, tokenId) == tokenId \in DOMAIN c.owners

ownerOf(c, tokenId) == c.owners[tokenId]

tokenURI(c, tokenId) == c.tokenURIs[tokenId]

\* The ledger includes the pending mint transaction in a block: the called entry
\* point runs on the storage of that moment; outOfGas is the ledger's own
\* reason to reject it.
IncludeTx ==
    /\ chain.tx.status = "pending"
    /\ \E outOfGas \in BOOLEAN :
         IF outOfGas \/ mintReverts(chain, chain.tx.sender)
         THEN chain' = [chain EXCEPT !.tx.status = "reverted"]
         ELSE chain' = [GameItemMint(chain, chain.tx.to, chain.tx.metadata)
                          EXCEPT !.tx.status = "success",
                                 !.tx.tokenId = chain._nextTokenId]
    /\ UNCHANGED <<files, deployRun, mintCall, getItemCall, retrieveCall, verifyCall, server, world>>

\* The ledger includes or rejects the pending deployment transaction.
IncludeDeployTx ==
    /\ chain.deployTx = "pending"
    /\ \E status \in {"success", "reverted"} : chain' = [chain EXCEPT !.deployTx = status]
    /\ UNCHANGED <<files, deployRun, mintCall, getItemCall, retrieveCall, verifyCall, server, world>>

-----------------------------------------------------------------------------
(* Errors: what a call throws. kind is the class of the taxonomy, message the
   text of the Error, cause the message of the error it quotes. *)

Error(kind, message, cause) == [kind |-> kind, message |-> message, cause |-> cause]

NoError == Error("", "", "")

Missing == "#missing"        \* a file that does not exist

-----------------------------------------------------------------------------
(* deploy/scripts/deploy.js: main() *)

NoReceipt == "null"

IdleDeploy ==
    [pc |-> "idle", attempts |-> 0, receipt |-> NoReceipt, exitCode |-> 0,
     error |-> NoError, wrote |-> FALSE,
     lookupFailed |-> FALSE]    \* a receipt lookup of this run threw

\* Lines 14-80: read the key, connect, estimate the gas, send the deployment.
\* sent = FALSE is any of these steps throwing. The script reads the key file
\* beside the deploy directory; the model keeps one key file for both.
DeployStart ==
    /\ deployRun.pc = "idle"
    /\ mintCall.pc = "idle" /\ mintCall.calls = 0
    /\ getItemCall.pc = "idle" /\ retrieveCall.pc = "idle" /\ verifyCall.pc = "idle"
    /\ \E sent \in BOOLEAN :
         IF files.privateKey = Missing \/ ~sent
         THEN /\ deployRun' = [deployRun EXCEPT !.pc = "exited", !.exitCode = 1,
                                  !.error = Error("DeployError", "Deployment failed", "")]
              /\ chain' = chain
         ELSE /\ deployRun' = [deployRun EXCEPT !.pc = "polling"]
              /\ chain' = [chain EXCEPT !.deployTx = "pending"]
    /\ UNCHANGED <<files, mintCall, getItemCall, retrieveCall, verifyCall, server, world>>

\* What provider.getTransactionReceipt can answer for the deployment transaction.
ReceiptLookups(c) ==
    {"null", "not found", "rpc error"}
        \cup (IF c.deployTx \in {"success", "reverted"} THEN {c.deployTx} ELSE {})

\* pollReceipt with a loop that lets the error of a lookup end the script.
pollReceiptAborts(run, answer) ==
    IF answer \in {"not found", "rpc error"}
    THEN [run EXCEPT !.attempts = @ + 1, !.lookupFailed = TRUE, !.pc = "exited",
                     !.exitCode = 1,
                     !.error = Error("LedgerUnavailable", "could not fetch receipt", "")]
    ELSE [run EXCEPT !.attempts = @ + 1,
                     !.receipt = IF answer \in {"success", "reverted"} THEN answer ELSE @]

\* Lines 87-109: one turn of the polling loop. An error thrown inside the try,
\* the "Transaction failed on blockchain" of line 97 included, is caught at
\* line 103 and the loop goes on; receipt keeps what line 92 assigned.
pollReceipt(run, answer) ==
    [run EXCEPT !.attempts = @ + 1,
                !.lookupFailed = @ \/ answer \in {"not found", "rpc error"},
                !.receipt = IF answer \in {"success", "reverted"} THEN answer ELSE @]

\* loopContinues with one more turn.
loopContinuesOnePast(run) == run.receipt = NoReceipt /\ run.attempts <= maxAttempts

\* Line 87: while (!receipt && attempts < maxAttempts)
loopContinues(run) == run.receipt = NoReceipt /\ run.attempts < maxAttempts

DeployPoll ==
    /\ deployRun.pc = "polling"
    /\ loopContinues(deployRun)
    /\ \E answer \in ReceiptLookups(chain) : deployRun' = pollReceipt(deployRun, answer)
    /\ UNCHANGED <<chain, files, mintCall, getItemCall, retrieveCall, verifyCall, server, world>>

\* Lines 111-168 once the loop has ended: hasAddress is receipt.contractAddress
\* being set, fallbackAddress is gameItem.getAddress() answering.
DeployFinish ==
    /\ deployRun.pc = "polling"
    /\ ~loopContinues(deployRun)
    /\ \E hasAddress \in BOOLEAN, fallbackAddress \in BOOLEAN :
         IF deployRun.receipt = NoReceipt
         THEN /\ deployRun' = [deployRun EXCEPT !.pc = "exited", !.exitCode = 1,
                                  !.error = Error("ConfirmationTimeout",
                                                  "Transaction not confirmed", "")]
              /\ files' = files
         ELSE IF hasAddress \/ fallbackAddress
         THEN /\ deployRun' = [deployRun EXCEPT !.pc = "exited", !.exitCode = 0,
                                  !.wrote = TRUE]
              /\ files' = [files EXCEPT !.deployment = ContractAddress]
         ELSE /\ deployRun' = [deployRun EXCEPT !.pc = "exited", !.exitCode = 1,
                                  !.error = Error("DeployError",
                                                  "Could not determine contract address", "")]
              /\ files' = files
    /\ UNCHANGED <<chain, mintCall, getItemCall, retrieveCall, verifyCall, server, world>>

-----------------------------------------------------------------------------
(* The calls at rest *)

\* The metadata of an item: a parsed object, { uri: blob }, { raw: blob } or null.
MetaValue(kind, obj, blob) == [kind |-> kind, obj |-> obj, blob |-> blob]

NullMetadata == MetaValue("null", NoObj, NoBlob)

Item(tokenId, owner, metadata, traits, name, description, image, error) ==
    [tokenId |-> tokenId, owner |-> owner, metadata |-> metadata, traits |-> traits,
     name |-> name, description |-> description, image |-> image, error |-> error]

NoItem == Item(0, Absent, NullMetadata, AbsentTraits, Absent, Absent, Absent, Absent)

IdleGetItem == [pc |-> "idle", tokenId |-> Undefined, result |-> NoItem, error |-> NoError]

IdleRetrieve ==
    [pc |-> "idle", walletAddress |-> Undefined,
     balanceNumber |-> 0, i |-> 0,
     tokenIds |-> <<>>,
     total |-> 0, tokenId |-> 0,
     items |-> <<>>,
     error |-> NoError,
     indexFailed |-> FALSE,     \* a tokenOfOwnerByIndex lookup failed
     indexed |-> <<>>,          \* what the indexed pass had collected when it failed
     scanned |-> <<>>,          \* the ids whose owner query matched, in the order asked
     failedQueries |-> {},      \* the ids whose owner query of the scan failed
     balanceFailed |-> FALSE,   \* the balanceOf() read failed
     heldSets |-> {},           \* the sets of ids the wallet held at the instants of
                                \* the call so far
     heldThroughout |-> {},     \* the ids the wallet held at every instant so far
     ledgerChanges |-> 0,       \* transfers and mints the ledger took during the call
     scanRan |-> FALSE]         \* totalSupply() was read

RetrieveTerminal == {"done", "failed"}

\* What verifyOwner() returns.
Verification(isOwner, walletAddress, actualOwner, tokenId, contractAddress) ==
    [isOwner |-> isOwner, walletAddress |-> walletAddress, actualOwner |-> actualOwner,
     tokenId |-> tokenId, contractAddress |-> contractAddress]

NoVerification == Verification(FALSE, Absent, Absent, 0, Absent)

IdleVerify ==
    [pc |-> "idle", walletAddress |-> Undefined, tokenId |-> Undefined,
     result |-> NoVerification, error |-> NoError]

-----------------------------------------------------------------------------
(* mint.js: mint(destinationAddress, imageUrl, traits, config) *)

Config(contractAddress, privateKey, rpcUrl) ==
    [contractAddress |-> contractAddress, privateKey |-> privateKey, rpcUrl |-> rpcUrl]

\* Line 70: config.rpcUrl || 'https://polygon-rpc.com/' (the same in
\* retrieve.js, get-item.js and verify-owner.js).
resolveRpcUrl(config) ==
    IF ~Falsy(config.rpcUrl) THEN config.rpcUrl ELSE Str("https://polygon-rpc.com/")

NoMintReceipt == [status |-> "null", logs |-> "absent", transfer |-> <<>>]

IdleMint ==
    [pc |-> "idle", calls |-> 0,
     destinationAddress |-> Undefined, imageUrl |-> Undefined, traits |-> NullTraits,
     config |-> Config(Undefined, Undefined, Undefined),
     contractAddress |-> Undefined, privateKey |-> Undefined, rpcUrl |-> Undefined,
     metadataJson |-> NoBlob,
     errors |-> <<>>,              \* what the candidates tried so far raised
     accepted |-> "",              \* the entry point whose submission was accepted
     lookups |-> 0,                \* receipt lookups of tx.wait() that found no receipt
     receipt |-> NoMintReceipt,
     tokenId |-> <<>>,             \* <<>> is null, <<n>> is the string of n
     error |-> NoError,
     ledgerOps |-> <<>>]           \* the contract calls this call issued, in order

MintTerminal == {"Resolved", "Failed"}

\* The arguments the model calls mint with.
Destinations == {Str("0xBb"), Str("not-an-address"), Undefined}
ImageUrls == {Str("https://x/sword.png"), Str(""), Num("42")}
TraitInputs == {NullTraits, NumberTraits} \cup TraitObjects
MintConfigs ==
    { Config(c, k, Undefined) : c \in {Undefined, Str(ContractAddress)},
                                k \in {Undefined, Str("0x2222"), Str("1111")} }
        \cup {Config(Str(ContractAddress), Str("0x2222"), Str("https://rpc.example/"))}

mintFails(call, error) == [call EXCEPT !.pc = "Failed", !.error = error, !.lookups = 0]

MintStart ==
    /\ mintCall.pc \in {"idle"} \cup MintTerminal
    /\ mintCall.calls < MaxMintCalls
    /\ deployRun.pc = "idle"
    /\ getItemCall.pc = "idle" /\ retrieveCall.pc = "idle" /\ verifyCall.pc = "idle"
    /\ chain.tx.status # "pending"
    /\ \E d \in Destinations, i \in ImageUrls, T \in TraitInputs, cfg \in MintConfigs :
         mintCall' = [IdleMint EXCEPT !.pc = "Validating", !.calls = mintCall.calls + 1,
                                      !.destinationAddress = d, !.imageUrl = i,
                                      !.traits = T, !.config = cfg]
    /\ chain' = [chain EXCEPT !.tx = NoTx]
    /\ UNCHANGED <<files, deployRun, getItemCall, retrieveCall, verifyCall, server, world>>

\* Lines 31-37.
validateInputs(destinationAddress, imageUrl) ==
    IF Falsy(destinationAddress) \/ ~isAddress(destinationAddress)
    THEN Error("ValidationError", "Invalid destination address", "")
    ELSE IF Falsy(imageUrl) \/ imageUrl.t # "string"
    THEN Error("ValidationError", "Image URL is required", "")
    ELSE NoError

MintValidate ==
    /\ mintCall.pc = "Validating"
    /\ LET e == validateInputs(mintCall.destinationAddress, mintCall.imageUrl)
       IN mintCall' = IF e # NoError THEN mintFails(mintCall, e)
                      ELSE [mintCall EXCEPT !.pc = "CheckingImage"]
    /\ UNCHANGED <<chain, files, deployRun, getItemCall, retrieveCall, verifyCall, server, world>>

\* What the HEAD request of lines 42-49 can come to: no global fetch, an image
\* content type, another content type, fetch rejecting ("fetch failed"), or
\* another error such as an unparsable URL.
HeadAnswers == {"no fetch", "image", "not an image", "fetch failed", "other error"}

\* Lines 42-61: the error mint throws, if any. An error whose message holds
\* "fetch" or "undefined" is swallowed at line 52, any other is thrown again.
checkImage(answer) ==
    CASE answer = "not an image" ->
            Error("ValidationError", "URL does not point to an image", "")
      [] answer = "other error" ->
            Error("ValidationError", "Failed to parse URL", "")
      [] OTHER -> NoError

MintCheckImage ==
    /\ mintCall.pc = "CheckingImage"
    /\ \E answer \in HeadAnswers :
         LET e == checkImage(answer)
         IN mintCall' = IF e # NoError THEN mintFails(mintCall, e)
                        ELSE [mintCall EXCEPT !.pc = "CheckingTraits"]
    /\ UNCHANGED <<chain, files, deployRun, getItemCall, retrieveCall, verifyCall, server, world>>

\* validateTraits without the test of line 63.
validateTraitsSkipped(traits) == NoError

\* Line 63: !traits || typeof traits !== 'object'
validateTraits(traits) ==
    IF traits.t = "null" \/ traits.t # "object"
    THEN Error("ValidationError", "Traits must be a valid object", "")
    ELSE NoError

MintCheckTraits ==
    /\ mintCall.pc = "CheckingTraits"
    /\ LET e == validateTraits(mintCall.traits)
       IN mintCall' = IF e # NoError THEN mintFails(mintCall, e)
                      ELSE [mintCall EXCEPT !.pc = "LoadingConfig"]
    /\ UNCHANGED <<chain, files, deployRun, getItemCall, retrieveCall, verifyCall, server, world>>

\* loadContractAddress asking for the signing key as mint() does.
loadContractAddressNeedsKey(config, fs) ==
    IF Falsy(config.privateKey) /\ fs.privateKey = Missing
    THEN [error |-> Error("ConfigurationError",
                          "Private key not provided and polygon_private_key.txt not found", ""),
          value |-> Undefined]
    ELSE IF Falsy(config.contractAddress) /\ fs.deployment = Missing
    THEN [error |-> Error("ConfigurationError",
                          "Contract address not provided and deployment.json not found", ""),
          value |-> Undefined]
    ELSE [error |-> NoError,
          value |-> IF ~Falsy(config.contractAddress) THEN config.contractAddress
                    ELSE Str(fs.deployment)]

\* loadContractAddress reading deployment.json first and the override after.
loadContractAddressFileFirst(config, fs) ==
    LET contractAddress ==
            IF fs.deployment # Missing THEN Str(fs.deployment)
            ELSE config.contractAddress
    IN IF Falsy(config.contractAddress) /\ fs.deployment = Missing
       THEN [error |-> Error("ConfigurationError",
                             "Contract address not provided and deployment.json not found", ""),
             value |-> Undefined]
       ELSE IF Falsy(contractAddress) \/ ~isAddress(contractAddress)
       THEN [error |-> Error("ConfigurationError", "Invalid contract address", ""),
             value |-> Undefined]
       ELSE [error |-> NoError, value |-> contractAddress]

\* loadContractAddress using the address the process resolved first, whatever
\* the call passes.
loadContractAddressShared(config, fs) ==
    [error |-> NoError, value |-> Str(fs.deployment)]

\* Lines 68-84 (the same in retrieve.js, get-item.js and verify-owner.js): the
\* contract address of the call, or the error thrown.
loadContractAddress(config, fs) ==
    LET contractAddress ==
            IF ~Falsy(config.contractAddress) THEN config.contractAddress
            ELSE Str(fs.deployment)
    IN IF Falsy(config.contractAddress) /\ fs.deployment = Missing
       THEN [error |-> Error("ConfigurationError",
                             "Contract address not provided and deployment.json not found", ""),
             value |-> Undefined]
       ELSE IF Falsy(contractAddress) \/ ~isAddress(contractAddress)
       THEN [error |-> Error("ConfigurationError", "Invalid contract address", ""),
             value |-> Undefined]
       ELSE [error |-> NoError, value |-> contractAddress]

startsWith0x(k) == k \in {"0x1111", "0x2222"}

\* Lines 86-100: the signing key of the call, or the error thrown.
loadPrivateKey(config, fs) ==
    LET privateKey ==
            IF ~Falsy(config.privateKey) THEN config.privateKey
            ELSE IF startsWith0x(fs.privateKey) THEN Str(fs.privateKey)
            ELSE Str("0x" \o fs.privateKey)
    IN IF Falsy(config.privateKey) /\ fs.privateKey = Missing
       THEN [error |-> Error("ConfigurationError",
                             "Private key not provided and polygon_private_key.txt not found", ""),
             value |-> Undefined]
       ELSE IF Falsy(privateKey) \/ ~startsWith0x(privateKey.v)
       THEN [error |-> Error("ConfigurationError", "Invalid private key format", ""),
             value |-> Undefined]
       ELSE [error |-> NoError, value |-> privateKey]

\* new ethers.Wallet(privateKey, provider): the account that signs.
signerOf(privateKey) ==
    IF privateKey.v = "0x1111" THEN OwnerAccount ELSE OtherAccount

\* Lines 67-126: resolve the configuration, build and serialise the metadata.
MintLoadConfig ==
    /\ mintCall.pc = "LoadingConfig"
    /\ LET a == loadContractAddress(mintCall.config, files)
           k == loadPrivateKey(mintCall.config, files)
       IN mintCall' =
            IF a.error # NoError THEN mintFails(mintCall, a.error)
            ELSE IF k.error # NoError THEN mintFails(mintCall, k.error)
            ELSE [mintCall EXCEPT
                    !.pc = "Submitting",
                    !.contractAddress = a.value,
                    !.privateKey = k.value,
                    !.rpcUrl = resolveRpcUrl(mintCall.config),
                    !.metadataJson =
                        JsonStringify(buildMetadata(mintCall.imageUrl, mintCall.traits))]
    /\ UNCHANGED <<chain, files, deployRun, getItemCall, retrieveCall, verifyCall, server, world>>

\* The entry points with safeMint tried first.
CandidatesSafeMintFirst == <<"safeMint", "mint", "mintWithMetadata">>

\* Lines 131-150: the entry points in the order mint() tries them.
Candidates == <<"mint", "safeMint", "mintWithMetadata">>

\* What contract.<fn>(destinationAddress, metadataJson) can come to. ethers
\* estimates the gas before it sends, so a call the contract would revert
\* raises at submission; the endpoint can fail any request.
SubmitAnswers(c, signer) ==
    {"rpc error"} \cup (IF mintReverts(c, signer) THEN {"reverted"} ELSE {"accepted"})

\* The message of the error a candidate raises: a revert names the call that
\* reverted, a failure of the endpoint does not.
submitError(fn, answer) ==
    IF answer = "reverted" THEN "execution reverted: " \o fn ELSE "could not reach endpoint"

\* entryPointNotFound quoting the error of the candidate tried last.
entryPointNotFoundLast(errors) ==
    Error("MintEntryPointNotFound",
          "Minting failed. Tried mint, safeMint, and mintWithMetadata. Original error: "
              \o errors[Len(errors)],
          errors[Len(errors)])

\* Line 147: the error thrown once the three candidates have raised. It quotes
\* error.message, the error of the outermost catch: the first candidate's.
entryPointNotFound(errors) ==
    Error("MintEntryPointNotFound",
          "Minting failed. Tried mint, safeMint, and mintWithMetadata. Original error: "
              \o errors[1],
          errors[1])

\* Lines 135-150, one candidate at a time.
MintSubmit ==
    /\ mintCall.pc = "Submitting"
    /\ LET fn == Candidates[Len(mintCall.errors) + 1]
           signer == signerOf(mintCall.privateKey)
       IN \E answer \in SubmitAnswers(chain, signer) :
            IF answer = "accepted"
            THEN /\ mintCall' = [mintCall EXCEPT !.pc = "AwaitingConfirmation",
                                                 !.accepted = fn,
                                                 !.ledgerOps = Append(@, fn)]
                 /\ chain' = [chain EXCEPT !.tx =
                                [status |-> "pending", fn |-> fn, sender |-> signer,
                                 to |-> getAddress(mintCall.destinationAddress.v),
                                 metadata |-> mintCall.metadataJson, tokenId |-> 0]]
            ELSE /\ LET errors == Append(mintCall.errors, submitError(fn, answer))
                        tried == [mintCall EXCEPT !.errors = errors,
                                                  !.ledgerOps = Append(@, fn)]
                    IN mintCall' = IF Len(errors) = Len(Candidates)
                                   THEN mintFails(tried, entryPointNotFound(errors))
                                   ELSE tried
                 /\ chain' = chain
    /\ UNCHANGED <<files, deployRun, getItemCall, retrieveCall, verifyCall, server, world>>

\* Line 156, tx.wait(): ethers looks the receipt up, and again on every new
\* block, with no limit on the number of lookups and no timeout. This is a
\* lookup that finds no receipt. The model counts the lookups up to
\* maxAttempts + 1 and keeps only their parity beyond.
MintWaitLookup ==
    /\ mintCall.pc = "AwaitingConfirmation"
    /\ chain.tx.status = "pending"
    /\ mintCall' = [mintCall EXCEPT !.lookups = IF @ <= maxAttempts + 1 THEN @ + 1
                                                ELSE maxAttempts + 1]
    /\ UNCHANGED <<chain, files, deployRun, getItemCall, retrieveCall, verifyCall, server, world>>

\* The receipt as mint() sees it. hasLogs is receipt.logs being set; the
\* Transfer log is there when the contract emitted it.
receiptOf(c, hasLogs) ==
    [status |-> c.tx.status,
     logs |-> IF hasLogs THEN "present" ELSE "absent",
     transfer |-> IF hasLogs /\ c.emitsTransfer /\ c.tx.status = "success"
                  THEN <<c.tx.tokenId>> ELSE <<>>]

\* waitReturns that goes on waiting once the receipt is there.
waitReturnsNever(call, receipt) == call

\* Line 156: tx.wait() finds the receipt of the included transaction. It
\* returns it, or throws CALL_EXCEPTION when its status is 0.
waitReturns(call, receipt) ==
    IF receipt.status = "reverted"
    THEN mintFails(call, Error("TransactionReverted", "transaction execution reverted", ""))
    ELSE [call EXCEPT !.pc = "ExtractingTokenId", !.lookups = 0, !.receipt = receipt]

MintWaitReceipt ==
    /\ mintCall.pc = "AwaitingConfirmation"
    /\ chain.tx.status \in {"success", "reverted"}
    /\ \E hasLogs \in BOOLEAN : mintCall' = waitReturns(mintCall, receiptOf(chain, hasLogs))
    /\ UNCHANGED <<chain, files, deployRun, getItemCall, retrieveCall, verifyCall, server, world>>

\* Line 156: the endpoint fails a lookup of tx.wait(), which throws.
MintWaitError ==
    /\ mintCall.pc = "AwaitingConfirmation"
    /\ mintCall' = mintFails(mintCall,
                             Error("LedgerUnavailable", "could not fetch receipt", ""))
    /\ UNCHANGED <<chain, files, deployRun, getItemCall, retrieveCall, verifyCall, server, world>>

\* Lines 158-173: the token id read from the Transfer event. Without a Transfer
\* log, find() answers undefined and parseLog(undefined) throws a TypeError,
\* which nothing inside mint() catches. A tokenId of 0n is falsy and is not taken.
extractTokenId(receipt) ==
    IF receipt.logs = "absent" THEN [threw |-> FALSE, tokenId |-> <<>>]
    ELSE IF receipt.transfer = <<>> THEN [threw |-> TRUE, tokenId |-> <<>>]
    ELSE IF receipt.transfer[1] = 0 THEN [threw |-> FALSE, tokenId |-> <<>>]
    ELSE [threw |-> FALSE, tokenId |-> receipt.transfer]

MintExtractTokenId ==
    /\ mintCall.pc = "ExtractingTokenId"
    /\ LET r == extractTokenId(mintCall.receipt)
       IN mintCall' =
            IF r.threw
            THEN mintFails(mintCall,
                           Error("TypeError", "Cannot read properties of undefined", ""))
            ELSE IF r.tokenId = <<>>
            THEN [mintCall EXCEPT !.pc = "ReadingTotalSupply"]
            ELSE [mintCall EXCEPT !.pc = "Resolved", !.tokenId = r.tokenId]
    /\ UNCHANGED <<chain, files, deployRun, getItemCall, retrieveCall, verifyCall, server, world>>

\* Line 179: tokenId = (totalSupply - 1n).toString()
tokenIdFromSupply(supply) == <<supply - 1>>

\* Lines 175-193: the fallback read of totalSupply(), then the result.
MintReadTotalSupply ==
    /\ mintCall.pc = "ReadingTotalSupply"
    /\ \E answered \in BOOLEAN :
         mintCall' = [mintCall EXCEPT
                        !.pc = "Resolved",
                        !.ledgerOps = Append(@, "totalSupply"),
                        !.tokenId = IF answered THEN tokenIdFromSupply(totalSupply(chain))
                                    ELSE <<>>]
    /\ UNCHANGED <<chain, files, deployRun, getItemCall, retrieveCall, verifyCall, server, world>>

MintNext ==
    \/ MintStart \/ MintValidate \/ MintCheckImage \/ MintCheckTraits \/ MintLoadConfig
    \/ MintSubmit \/ MintWaitLookup \/ MintWaitReceipt \/ MintWaitError
    \/ MintExtractTokenId
    \/ MintReadTotalSupply

-----------------------------------------------------------------------------
(* Reading the contract: the views retrieve.js and get-item.js call *)

sameAccount(a, b) == toLowerCase(a) = toLowerCase(b)

\* The token ids `owner` holds, in ascending order.
RECURSIVE ownedUpTo(_, _, _)
ownedUpTo(c, owner, n) ==
    IF n = 0 THEN <<>>
    ELSE LET rest == ownedUpTo(c, owner, n - 1)
         IN IF n \in DOMAIN c.owners /\ sameAccount(c.owners[n], owner)
            THEN Append(rest, n) ELSE rest

ownedTokens(c, owner) == ownedUpTo(c, owner, c._nextTokenId - 1)

\* The set of token ids `owner` holds.
heldSet(c, owner) == {id \in DOMAIN c.owners : sameAccount(c.owners[id], owner)}

\* ERC721 balanceOf(owner)
balanceOf(c, owner) == Len(ownedTokens(c, owner))

\* ERC721Enumerable tokenOfOwnerByIndex(owner, index): whether it reverts, and
\* what it returns. The list is in the order the contract keeps it.
indexReverts(c, owner, index) ==
    c.enumerable = "none" \/ index >= balanceOf(c, owner)

tokenOfOwnerByIndex(c, owner, index) ==
    LET held == ownedTokens(c, owner)
    IN IF c.enumerable = "asc" THEN held[index + 1] ELSE held[Len(held) - index]

-----------------------------------------------------------------------------
(* Decoding a token URI: retrieve.js lines 123-138, get-item.js lines 80-94 *)

\* tokenURI.startsWith(prefix): the prefixes tested are single tokens.
startsWith(blob, prefix) == Len(blob.text) > 0 /\ blob.text[1] = prefix

\* The least i >= from with text[i] = token, or Len(text) + 1.
RECURSIVE indexFrom(_, _, _)
indexFrom(text, token, from) ==
    IF from > Len(text) THEN Len(text) + 1
    ELSE IF text[from] = token THEN from
    ELSE indexFrom(text, token, from + 1)

\* tokenURI.split(',')[1]: the text between the first and the second comma;
\* undefined when there is no comma.
hasComma(text) == indexFrom(text, ",", 1) <= Len(text)

splitSecond(text) ==
    LET first == indexFrom(text, ",", 1)
        second == indexFrom(text, ",", first + 1)
    IN SubSeq(text, first + 1, second - 1)

\* Buffer.from(text, 'base64').toString(): the text a base64 payload encodes,
\* and bytes that are no JSON for anything else.
base64Decode(text) ==
    IF Len(text) >= 2 /\ text[1] = "b64(" /\ text[Len(text)] = ")"
    THEN SubSeq(text, 2, Len(text) - 1)
    ELSE <<"#bytes">>

\* JSON.parse: "object" with the object, "null" for the text null, or "throws".
jsonParse(text, obj) ==
    IF text = <<"{", "#obj", "}">> /\ obj # NoObj THEN "object"
    ELSE IF text = <<"null">> THEN "null"
    ELSE "throws"

\* metadata.traits || {}
traitsOf(metadata) ==
    IF metadata.kind = "object" /\ metadata.obj.traits.t # "absent"
    THEN metadata.obj.traits ELSE EmptyTraits

\* metadata.<key> || dflt
memberOf(metadata, key, dflt) ==
    IF metadata.kind = "object" THEN OrElse(metadata.obj[key], dflt) ELSE dflt

\* retrieveDecode without the last branch: what is no JSON is taken for a locator.
retrieveDecodeNoRaw(uri) ==
    IF startsWith(uri, "data:application/json")
    THEN IF ~hasComma(uri.text) THEN MetaValue("throws", NoObj, NoBlob)
         ELSE LET parsed == jsonParse(base64Decode(splitSecond(uri.text)), uri.obj)
              IN IF parsed = "object" THEN MetaValue("object", uri.obj, NoBlob)
                 ELSE MetaValue(parsed, NoObj, NoBlob)
    ELSE IF startsWith(uri, "{")
    THEN LET parsed == jsonParse(uri.text, uri.obj)
         IN IF parsed = "object" THEN MetaValue("object", uri.obj, NoBlob)
            ELSE MetaValue(parsed, NoObj, NoBlob)
    ELSE MetaValue("uri", NoObj, uri)

\* retrieve.js lines 123-138: the metadata a token URI decodes to; kind
\* "throws" when the decoding throws.
retrieveDecode(uri) ==
    IF startsWith(uri, "data:application/json")
    THEN IF ~hasComma(uri.text) THEN MetaValue("throws", NoObj, NoBlob)
         ELSE LET parsed == jsonParse(base64Decode(splitSecond(uri.text)), uri.obj)
              IN IF parsed = "object" THEN MetaValue("object", uri.obj, NoBlob)
                 ELSE MetaValue(parsed, NoObj, NoBlob)
    ELSE IF startsWith(uri, "{")
    THEN LET parsed == jsonParse(uri.text, uri.obj)
         IN IF parsed = "object" THEN MetaValue("object", uri.obj, NoBlob)
            ELSE MetaValue(parsed, NoObj, NoBlob)
    ELSE IF startsWith(uri, "http") THEN MetaValue("uri", NoObj, uri)
    ELSE MetaValue("raw", NoObj, uri)

\* retrieveItem whose entry for a failing token has no error string.
retrieveItemNoError(tokenId, answered, uri) ==
    LET metadata == IF answered THEN retrieveDecode(uri) ELSE MetaValue("throws", NoObj, NoBlob)
    IN IF metadata.kind \in {"throws", "null"}
       THEN Item(tokenId, Absent, NullMetadata, AbsentTraits, Absent, Absent, Absent, Absent)
       ELSE Item(tokenId, Absent, metadata, traitsOf(metadata),
                 memberOf(metadata, "name", "Item #" \o ToString(tokenId)),
                 memberOf(metadata, "description", ""),
                 memberOf(metadata, "image", ""),
                 Absent)

\* retrieve.js lines 119-156: the entry of one token. answered is tokenURI()
\* answering. Reading a member of null throws, as a failed parse does.
retrieveItem(tokenId, answered, uri) ==
    LET metadata == IF answered THEN retrieveDecode(uri) ELSE MetaValue("throws", NoObj, NoBlob)
    IN IF metadata.kind \in {"throws", "null"}
       THEN Item(tokenId, Absent, NullMetadata, AbsentTraits, Absent, Absent, Absent,
                 "Could not retrieve metadata")
       ELSE Item(tokenId, Absent, metadata, traitsOf(metadata),
                 memberOf(metadata, "name", "Item #" \o ToString(tokenId)),
                 memberOf(metadata, "description", ""),
                 memberOf(metadata, "image", ""),
                 Absent)

\* get-item.js lines 80-94.
getItemDecode(uri) ==
    IF startsWith(uri, "data:application/json")
    THEN IF ~hasComma(uri.text) THEN MetaValue("throws", NoObj, NoBlob)
         ELSE LET parsed == jsonParse(base64Decode(splitSecond(uri.text)), uri.obj)
              IN IF parsed = "object" THEN MetaValue("object", uri.obj, NoBlob)
                 ELSE MetaValue(parsed, NoObj, NoBlob)
    ELSE IF startsWith(uri, "{")
    THEN LET parsed == jsonParse(uri.text, uri.obj)
         IN IF parsed = "object" THEN MetaValue("object", uri.obj, NoBlob)
            ELSE MetaValue(parsed, NoObj, NoBlob)
    ELSE IF startsWith(uri, "http") THEN MetaValue("uri", NoObj, uri)
    ELSE MetaValue("raw", NoObj, uri)

\* get-item.js lines 70-116: the item returned once ownerOf() has answered.
\* When the decoding throws, metadata is null and the other members keep the
\* values lines 72-75 gave them.
getItemResult(tokenId, owner, answered, uri) ==
    LET metadata == IF answered THEN getItemDecode(uri) ELSE MetaValue("throws", NoObj, NoBlob)
    IN IF metadata.kind \in {"throws", "null"}
       THEN Item(tokenId, owner, NullMetadata, EmptyTraits, "", "", "", Absent)
       ELSE Item(tokenId, owner, metadata, traitsOf(metadata),
                 memberOf(metadata, "name", "Item #" \o ToString(tokenId)),
                 memberOf(metadata, "description", ""),
                 memberOf(metadata, "image", ""),
                 Absent)

-----------------------------------------------------------------------------
(* get-item.js: getItem(tokenId, config) *)

\* The token ids the model asks for: numbers and strings of numbers.
TokenIdInputs == {Num("0"), Num("1"), Str("2"), Num("3"), Num("-1"), Str("abc"), Undefined}

ReadConfigs ==
    { Config(Undefined, Undefined, Undefined),
      Config(Str(ContractAddress), Undefined, Undefined),
      Config(Str(ContractAddress), Str("0x2222"), Str("https://rpc.example/")) }

isNaN(x) == x.v \notin {"-1", "0", "1", "2", "3"}

\* Number(tokenId), for a tokenId that is not NaN
toNumber(x) ==
    CASE x.v = "-1" -> 0 - 1
      [] x.v = "0" -> 0
      [] x.v = "1" -> 1
      [] x.v = "2" -> 2
      [] OTHER -> 3

\* Lines 21-28.
validateTokenId(tokenId) ==
    IF tokenId.t \in {"undefined", "null"}
    THEN Error("ValidationError", "Token ID is required", "")
    ELSE IF isNaN(tokenId) \/ toNumber(tokenId) < 0
    THEN Error("ValidationError", "Token ID must be a valid number", "")
    ELSE NoError

\* tokenNotFound throwing what ownerOf() threw.
tokenNotFoundRethrown(tokenId) == Error("LedgerError", "execution reverted", "")

\* Lines 62-68: ownerOf(), and the error thrown when it does not answer.
tokenNotFound(tokenId) ==
    Error("TokenNotFound", "Token ID " \o tokenId.v \o " does not exist or has been burned", "")

\* The whole call on one state of the ledger. ownerAnswered and uriAnswered
\* are the endpoint answering the two reads.
getItem(tokenIds, configs) ==
    /\ deployRun.pc = "idle"
    /\ mintCall.pc \in {"idle"} \cup MintTerminal
    /\ getItemCall.pc = "idle" /\ retrieveCall.pc = "idle" /\ verifyCall.pc = "idle"
    /\ \E tokenId \in tokenIds, cfg \in configs,
          ownerAnswered \in BOOLEAN, uriAnswered \in BOOLEAN :
         LET v == validateTokenId(tokenId)
             a == loadContractAddress(cfg, files)
             n == toNumber(tokenId)
             call == [IdleGetItem EXCEPT !.tokenId = tokenId]
         IN getItemCall' =
              IF v # NoError THEN [call EXCEPT !.pc = "failed", !.error = v]
              ELSE IF a.error # NoError THEN [call EXCEPT !.pc = "failed", !.error = a.error]
              ELSE IF ~(ownerAnswered /\ exists(chain, n))
              THEN [call EXCEPT !.pc = "failed", !.error = tokenNotFound(tokenId)]
              ELSE [call EXCEPT !.pc = "done",
                                !.result = getItemResult(n, ownerOf(chain, n),
                                                         uriAnswered, tokenURI(chain, n))]
    /\ UNCHANGED <<chain, files, deployRun, mintCall, retrieveCall, verifyCall, server, world>>

\* getItem() on any token id.
GetItem == getItem(TokenIdInputs, ReadConfigs)

\* The caller of a mint that returned a token id looks that token up.
MintedConfig == {Config(mintCall.config.contractAddress, Undefined, mintCall.config.rpcUrl)}

GetMintedItem ==
    /\ mintCall.pc = "Resolved" /\ mintCall.tokenId # <<>>
    /\ getItem({Str(ToString(mintCall.tokenId[1]))}, MintedConfig)

-----------------------------------------------------------------------------
(* verify-owner.js: verifyOwner(walletAddress, tokenId, config) *)

\* The addresses the model calls verifyOwner() and retrieve() with.
WalletInputs == {Str("0xAa"), Str("0xbb"), Str("0xBb"), Str("not-an-address")}

\* isOwnerOf comparing the spellings as they are.
isOwnerOfExact(walletAddress, actualOwner) == walletAddress = actualOwner

\* Lines 78-82: both addresses lower-cased, then compared.
isOwnerOf(walletAddress, actualOwner) ==
    toLowerCase(walletAddress) = toLowerCase(actualOwner)

\* Lines 24-35: the wallet address first, then the token id as in getItem().
validateVerifyInputs(walletAddress, tokenId) ==
    IF Falsy(walletAddress) \/ ~isAddress(walletAddress)
    THEN Error("ValidationError", "Invalid wallet address", "")
    ELSE validateTokenId(tokenId)

\* The whole call on one state of the ledger; ownerAnswered is the endpoint
\* answering ownerOf().
verifyOwner(addresses, tokenIds, configs) ==
    /\ deployRun.pc = "idle"
    /\ mintCall.pc \in {"idle"} \cup MintTerminal
    /\ verifyCall.pc = "idle" /\ retrieveCall.pc = "idle"
    /\ \E walletAddress \in addresses, tokenId \in tokenIds, cfg \in configs,
          ownerAnswered \in BOOLEAN :
         LET v == validateVerifyInputs(walletAddress, tokenId)
             a == loadContractAddress(cfg, files)
             n == toNumber(tokenId)
             call == [IdleVerify EXCEPT !.walletAddress = walletAddress,
                                        !.tokenId = tokenId]
         IN verifyCall' =
              IF v # NoError THEN [call EXCEPT !.pc = "failed", !.error = v]
              ELSE IF a.error # NoError THEN [call EXCEPT !.pc = "failed", !.error = a.error]
              ELSE IF ~(ownerAnswered /\ exists(chain, n))
              THEN [call EXCEPT !.pc = "failed", !.error = tokenNotFound(tokenId)]
              ELSE [call EXCEPT
                      !.pc = "done",
                      !.result = Verification(isOwnerOf(walletAddress.v, ownerOf(chain, n)),
                                              walletAddress.v, ownerOf(chain, n), n,
                                              a.value.v)]
    /\ UNCHANGED <<chain, files, deployRun, mintCall, getItemCall, retrieveCall, server, world>>

\* verifyOwner() on any address and token id, or on the token id getItem()
\* was asked for on this ledger.
VerifyOwner ==
    verifyOwner(WalletInputs,
                IF getItemCall.pc = "idle" THEN TokenIdInputs ELSE {getItemCall.tokenId},
                ReadConfigs)

-----------------------------------------------------------------------------
(* retrieve.js: retrieve(walletAddress, config) *)

\* Lines 19-58.
retrieveStart(addresses, configs) ==
    /\ getItemCall.pc = "idle" /\ retrieveCall.pc = "idle" /\ verifyCall.pc = "idle"
    /\ deployRun.pc = "idle"
    /\ mintCall.pc \in {"idle"} \cup MintTerminal
    /\ \E walletAddress \in addresses, cfg \in configs :
         LET a == loadContractAddress(cfg, files)
             call == [IdleRetrieve EXCEPT !.walletAddress = walletAddress]
         IN retrieveCall' =
              IF Falsy(walletAddress) \/ ~isAddress(walletAddress)
              THEN [call EXCEPT !.pc = "failed",
                                !.error = Error("ValidationError", "Invalid wallet address", "")]
              ELSE IF a.error # NoError THEN [call EXCEPT !.pc = "failed", !.error = a.error]
              ELSE [call EXCEPT !.pc = "ReadingBalance",
                                !.heldSets = {heldSet(chain, walletAddress.v)},
                                !.heldThroughout = heldSet(chain, walletAddress.v)]
    /\ UNCHANGED <<chain, files, deployRun, mintCall, getItemCall, verifyCall, server, world>>

\* retrieve() on any address.
RetrieveStart == retrieveStart(WalletInputs, ReadConfigs)

\* The caller of a successful mint lists the tokens of the destination.
RetrieveMinted ==
    /\ mintCall.pc = "Resolved"
    /\ retrieveStart({mintCall.destinationAddress}, MintedConfig)

\* afterIndexedPass that runs the scan whatever the indexed pass collected.
afterIndexedPassAlwaysScans(call) == [call EXCEPT !.pc = "ReadingTotalSupply"]

\* Line 90: the scan runs when the indexed pass left tokenIds empty.
afterIndexedPass(call) ==
    IF Len(call.tokenIds) = 0 THEN [call EXCEPT !.pc = "ReadingTotalSupply"]
    ELSE [call EXCEPT !.pc = "FetchingMetadata"]

\* afterDiscovery that returns before the loop over tokenIds.
afterDiscoveryReturnsNothing(call) == [call EXCEPT !.pc = "done"]

\* Lines 116-160: the loop over tokenIds, which returns at once when it is empty.
afterDiscovery(call) ==
    IF Len(call.tokenIds) = 0 THEN [call EXCEPT !.pc = "done"]
    ELSE [call EXCEPT !.pc = "FetchingMetadata"]

\* balanceReadFailed that lets the error of the read out of retrieve().
balanceReadFailedThrows(call) ==
    [call EXCEPT !.balanceFailed = TRUE, !.pc = "failed",
                 !.error = Error("LedgerUnavailable", "could not read balance", "")]

\* Lines 85-87: the catch around the indexed pass swallows the error of
\* balanceOf(); tokenIds is still empty, so the scan runs.
balanceReadFailed(call) == afterIndexedPass([call EXCEPT !.balanceFailed = TRUE])

\* Lines 63-72 and 85-87: the balance read.
RetrieveBalance ==
    /\ retrieveCall.pc = "ReadingBalance"
    /\ \E answered \in BOOLEAN :
         retrieveCall' =
            IF ~answered THEN balanceReadFailed(retrieveCall)
            ELSE LET balance == balanceOf(chain, retrieveCall.walletAddress.v)
                 IN IF balance = 0 THEN [retrieveCall EXCEPT !.pc = "done", !.balanceNumber = 0]
                    ELSE [retrieveCall EXCEPT !.pc = "Indexing", !.balanceNumber = balance]
    /\ UNCHANGED <<chain, files, deployRun, mintCall, getItemCall, verifyCall, server, world>>

\* indexLookupFailed that keeps what the indexed pass has collected.
indexLookupFailedKeeps(call) ==
    [call EXCEPT !.indexed = call.tokenIds, !.indexFailed = TRUE]

\* Lines 78-83: a per-index lookup failed; tokenIds = [] and break.
indexLookupFailed(call) ==
    [call EXCEPT !.tokenIds = <<>>, !.indexed = call.tokenIds, !.indexFailed = TRUE]

\* Lines 74-84: one turn of the indexed loop.
RetrieveIndex ==
    /\ retrieveCall.pc = "Indexing"
    /\ \E answered \in BOOLEAN :
         LET owner == retrieveCall.walletAddress.v
             i == retrieveCall.i
         IN retrieveCall' =
              IF ~answered \/ indexReverts(chain, owner, i)
              THEN afterIndexedPass(indexLookupFailed(retrieveCall))
              ELSE LET pushed == [retrieveCall EXCEPT
                                    !.tokenIds = Append(@, tokenOfOwnerByIndex(chain, owner, i)),
                                    !.i = i + 1]
                   IN IF i + 1 < retrieveCall.balanceNumber THEN pushed
                      ELSE afterIndexedPass(pushed)
    /\ UNCHANGED <<chain, files, deployRun, mintCall, getItemCall, verifyCall, server, world>>

\* Lines 90-95 and 111-113: the scan starts with the total supply.
RetrieveTotalSupply ==
    /\ retrieveCall.pc = "ReadingTotalSupply"
    /\ \E answered \in BOOLEAN :
         retrieveCall' =
            IF ~answered
            THEN [retrieveCall EXCEPT !.pc = "failed",
                                      !.error = Error("LedgerUnavailable",
                                                      "Failed to retrieve tokens", "")]
            ELSE LET started == [retrieveCall EXCEPT !.total = totalSupply(chain),
                                                     !.tokenId = 1, !.scanRan = TRUE]
                 IN IF started.total = 0 THEN afterDiscovery(started)
                    ELSE [started EXCEPT !.pc = "Scanning"]
    /\ UNCHANGED <<chain, files, deployRun, mintCall, getItemCall, verifyCall, server, world>>

\* scanMatches letting no owner match.
scanMatchesNone(owner, walletAddress) == FALSE

\* scanMatches letting every owner match.
scanMatchesAny(owner, walletAddress) == TRUE

\* scanMatches comparing the spellings as they are.
scanMatchesExact(owner, walletAddress) == owner = walletAddress

\* Line 101: owner.toLowerCase() === walletAddress.toLowerCase()
scanMatches(owner, walletAddress) == toLowerCase(owner) = toLowerCase(walletAddress)

\* Lines 98-108: one turn of the scan.
RetrieveScan ==
    /\ retrieveCall.pc = "Scanning"
    /\ \E answered \in BOOLEAN :
         LET tokenId == retrieveCall.tokenId
             queried == answered /\ exists(chain, tokenId)
             matches == /\ queried
                        /\ scanMatches(ownerOf(chain, tokenId), retrieveCall.walletAddress.v)
             asked == [retrieveCall EXCEPT
                         !.tokenId = tokenId + 1,
                         !.tokenIds = IF matches THEN Append(@, tokenId) ELSE @,
                         !.scanned = IF matches THEN Append(@, tokenId) ELSE @,
                         !.failedQueries = IF queried THEN @ ELSE @ \cup {tokenId}]
         IN retrieveCall' = IF tokenId + 1 <= retrieveCall.total THEN asked
                            ELSE afterDiscovery(asked)
    /\ UNCHANGED <<chain, files, deployRun, mintCall, getItemCall, verifyCall, server, world>>

\* Lines 119-160: the metadata of the next token, and the return after the last.
RetrieveMetadata ==
    /\ retrieveCall.pc = "FetchingMetadata"
    /\ \E answered \in BOOLEAN :
         LET tokenId == retrieveCall.tokenIds[Len(retrieveCall.items) + 1]
             uriAnswered == answered /\ exists(chain, tokenId)
             item == retrieveItem(tokenId, uriAnswered,
                                  IF uriAnswered THEN tokenURI(chain, tokenId) ELSE NoBlob)
             items == Append(retrieveCall.items, item)
         IN retrieveCall' = [retrieveCall EXCEPT
                               !.items = items,
                               !.pc = IF Len(items) = Len(retrieveCall.tokenIds)
                                      THEN "done" ELSE "FetchingMetadata"]
    /\ UNCHANGED <<chain, files, deployRun, mintCall, getItemCall, verifyCall, server, world>>

RetrieveSteps ==
    \/ RetrieveBalance \/ RetrieveIndex \/ RetrieveTotalSupply
    \/ RetrieveScan \/ RetrieveMetadata

-----------------------------------------------------------------------------
(* The HTTP server: server.js *)

\* The key the operator stored in endpoint_key.txt.
EndpointKey == "k-stored"

\* What a caller puts where a key goes: nothing, the stored key, another key.
KeyInputs == {Undefined, Str(EndpointKey), Str("k-other")}

\* endpoint_key.txt: absent, holding the key, holding the key and a newline.
EndpointKeyFiles == {Missing, EndpointKey, "k-stored\n"}

\* String.prototype.trim() on the contents of endpoint_key.txt
trim(s) == IF s = "k-stored\n" THEN "k-stored" ELSE s

AuthenticatedRoutes ==
    { "POST /api/mint",
      "GET /api/retrieve/:walletAddress", "POST /api/retrieve",
      "GET /api/item/:tokenId", "POST /api/item",
      "GET /api/verify-owner/:walletAddress/:tokenId", "POST /api/verify-owner" }

Routes == {"GET /health"} \cup AuthenticatedRoutes

\* The core operation a route's handler calls.
coreOperation(route) ==
    CASE route = "POST /api/mint" -> "mint"
      [] route \in {"GET /api/retrieve/:walletAddress", "POST /api/retrieve"} -> "retrieve"
      [] route \in {"GET /api/item/:tokenId", "POST /api/item"} -> "getItem"
      [] route \in {"GET /api/verify-owner/:walletAddress/:tokenId",
                    "POST /api/verify-owner"} -> "verifyOwner"
      [] OTHER -> "none"

\* A request: the X-API-Key header, the apiKey query parameter, the content
\* type of the body and its apiKey field, and the parameter the route is
\* about (destinationAddress, walletAddress or tokenId), which the GET routes
\* take from the path and the POST routes from the body. Every other field
\* the handler reads is present and well-formed.
Request(route, headerKey, queryKey, contentType, bodyKey, param) ==
    [route |-> route, headerKey |-> headerKey, queryKey |-> queryKey,
     contentType |-> contentType, bodyKey |-> bodyKey, param |-> param]

NoRequest == Request("", Undefined, Undefined, "none", Undefined, Undefined)

\* req.body: its apiKey member and the parameter of the route.
Body(apiKey, param) == [apiKey |-> apiKey, param |-> param]

GetRoutes ==
    {"GET /api/retrieve/:walletAddress", "GET /api/item/:tokenId",
     "GET /api/verify-owner/:walletAddress/:tokenId"}

\* What a caller sends as the parameter of a route: a well-formed value, a
\* malformed one, or, where the parameter is a field of the body, nothing.
ParamInputs(route) ==
    (IF coreOperation(route) = "getItem" THEN {Str("1"), Str("abc")}
     ELSE {Str("0xBb"), Str("not-an-address")})
    \cup (IF route \in GetRoutes THEN {} ELSE {Undefined})

\* GET requests carry no body; POST requests carry a JSON body, and POST
\* /api/mint a JSON body or a multipart/form-data body with the image file.
\* Bodies are well-formed.
Requests ==
    { Request("GET /health", h, q, "none", Undefined, Undefined) :
        h \in KeyInputs, q \in KeyInputs }
    \cup
    { Request(rp[1], h, q, "none", Undefined, rp[2]) :
        rp \in UNION {{<<r, param>> : param \in ParamInputs(r)} : r \in GetRoutes},
        h \in KeyInputs, q \in KeyInputs }
    \cup
    { Request(rcp[1], k[1], k[2], rcp[2], k[3], rcp[3]) :
        rcp \in UNION {{<<rc[1], rc[2], param>> : param \in ParamInputs(rc[1])} :
                         rc \in ({"POST /api/mint", "POST /api/retrieve", "POST /api/item",
                                  "POST /api/verify-owner"} \X {"application/json"})
                                \cup {<<"POST /api/mint", "multipart/form-data">>}},
        k \in KeyInputs \X KeyInputs \X KeyInputs }

IdleServer ==
    [pc |-> "idle", endpointKey |-> Missing, request |-> NoRequest,
     body |-> Body(Undefined, Undefined), authenticated |-> FALSE,
     called |-> "none", error |-> NoError, status |-> 0, requests |-> 0,
     mintLog |-> <<>>, retrieveLog |-> <<>>]   \* the lines of mint_logs.csv and
                                                \* retrieve_logs.csv after the header

\* Line 39, app.use(express.json()): req.body is the parsed object of a JSON
\* body, and an empty object for every other request.
expressJson(request) ==
    IF request.contentType = "application/json"
    THEN Body(request.bodyKey, request.param)
    ELSE Body(Undefined, Undefined)

\* upload.single('image') of multer: req.body gets the text fields of a
\* multipart body; any other request passes as it is.
uploadSingle(request, body) ==
    IF request.contentType = "multipart/form-data"
    THEN Body(request.bodyKey, request.param)
    ELSE body

\* Line 43: req.headers['x-api-key'] || req.body.apiKey || req.query.apiKey
providedKey(request, body) ==
    IF ~Falsy(request.headerKey) THEN request.headerKey
    ELSE IF ~Falsy(body.apiKey) THEN body.apiKey
    ELSE request.queryKey

\* authenticate(req, res, next): the status it answers with, 0 when it calls
\* next().
authenticate(request, body, endpointKeyFile) ==
    IF Falsy(providedKey(request, body)) THEN 401
    ELSE IF endpointKeyFile = Missing THEN 500
    ELSE IF providedKey(request, body) # Str(trim(endpointKeyFile)) THEN 403
    ELSE 0

\* The server takes a request: express.json() reads the body, and the router
\* answers /health itself or hands the request to authenticate.
ServerReceive ==
    /\ server.pc \in {"idle", "responded"}
    /\ server.requests < MaxRequests
    /\ \E request \in Requests :
         server' = [server EXCEPT
            !.request = request,
            !.body = expressJson(request),
            !.authenticated = FALSE,
            !.called = "none",
            !.error = NoError,
            !.requests = @ + 1,
            !.status = IF request.route = "GET /health" THEN 200 ELSE 0,
            !.pc = IF request.route = "GET /health" THEN "responded" ELSE "authenticate"]
    /\ UNCHANGED <<chain, files, deployRun, mintCall, getItemCall, retrieveCall, verifyCall, world>>

\* authenticate answers 401, 500 or 403, or calls next(): for POST /api/mint
\* the next middleware is upload.single('image'), for the others the handler.
ServerAuthenticate ==
    /\ server.pc = "authenticate"
    /\ LET status == authenticate(server.request, server.body, server.endpointKey)
       IN server' = [server EXCEPT
            !.status = status,
            !.authenticated = (status = 0),
            !.pc = IF status # 0 THEN "responded"
                   ELSE IF server.request.route = "POST /api/mint" THEN "upload"
                   ELSE "handler"]
    /\ UNCHANGED <<chain, files, deployRun, mintCall, getItemCall, retrieveCall, verifyCall, world>>

ServerUpload ==
    /\ server.pc = "upload"
    /\ server' = [server EXCEPT !.body = uploadSingle(server.request, server.body),
                                !.pc = "handler"]
    /\ UNCHANGED <<chain, files, deployRun, mintCall, getItemCall, retrieveCall, verifyCall, world>>

\* What the handler of a route reads its parameter from: req.params on the
\* GET routes, req.body on the POST routes.
handlerParam(request, body) ==
    IF request.route \in GetRoutes THEN request.param ELSE body.param

\* The request-level check of a handler: the POST handlers answer 400 when
\* the parameter is missing (!destinationAddress, !walletAddress, !tokenId);
\* the GET handlers check nothing.
fieldsPresent(request, body) ==
    \/ request.route \in GetRoutes
    \/ ~Falsy(body.param)

\* retrieve.js lines 19-22
validateWalletAddress(walletAddress) ==
    IF Falsy(walletAddress) \/ ~isAddress(walletAddress)
    THEN Error("ValidationError", "Invalid wallet address", "")
    ELSE NoError

\* What the core operation of a route raises for the parameter before it
\* reads the ledger, NoError when it goes on.
coreValidation(route, param) ==
    CASE coreOperation(route) = "mint" -> validateInputs(param, Str("https://x/sword.png"))
      [] coreOperation(route) = "retrieve" -> validateWalletAddress(param)
      [] coreOperation(route) = "getItem" -> validateTokenId(param)
      [] OTHER -> validateVerifyInputs(param, Str("1"))

\* What a core operation that accepted its arguments raises later on.
LedgerErrors ==
    { Error("ConfigurationError",
            "Contract address not provided and deployment.json not found", ""),
      Error("LedgerError", "could not detect network", ""),
      Error("LedgerError", "missing revert data, code=CALL_EXCEPTION", "") }

\* logger.js lines 31 and 60: errorMessage.replace(/,/g, ';').replace(/\n/g, ' ')
sanitize(errorMessage) ==
    IF errorMessage = "missing revert data, code=CALL_EXCEPTION"
    THEN "missing revert data; code=CALL_EXCEPTION"
    ELSE errorMessage

\* A line of mint_logs.csv and a line of retrieve_logs.csv, without the
\* timestamp and the fields the handler copies from the result of the call.
MintLogEntry(destinationAddress, success, errorMessage) ==
    [destinationAddress |-> destinationAddress, success |-> success,
     errorMessage |-> errorMessage]

RetrieveLogEntry(walletAddress, success, errorMessage) ==
    [walletAddress |-> walletAddress, success |-> success, errorMessage |-> errorMessage]

\* logMint writing a line for failed calls only.
logMintFailuresOnly(log, destinationAddress, success, errorMessage) ==
    IF success THEN log
    ELSE Append(log, MintLogEntry(destinationAddress.v, success, sanitize(errorMessage)))

\* logger.js lines 19-47: logMint appends one line to mint_logs.csv, a file
\* of a storage directory that can be written.
logMint(log, destinationAddress, success, errorMessage) ==
    Append(log, MintLogEntry(destinationAddress.v, success, sanitize(errorMessage)))

\* logger.js lines 52-76: logRetrieve appends one line to retrieve_logs.csv.
logRetrieve(log, walletAddress, success, errorMessage) ==
    Append(log, RetrieveLogEntry(walletAddress.v, success, sanitize(errorMessage)))

\* The catch of every handler: res.status(500) for whatever was thrown.
respond(error) == IF error = NoError THEN 200 ELSE 500

\* The handler of a route: 400 for a missing field; or else the core
\* operation is called and returns (200) or raises (500). POST /api/mint
\* writes a line to mint_logs.csv and GET /api/retrieve/:walletAddress a line
\* to retrieve_logs.csv, whichever way the call ends.
ServerHandle ==
    /\ server.pc = "handler"
    /\ IF ~fieldsPresent(server.request, server.body)
       THEN server' = [server EXCEPT !.status = 400, !.pc = "responded"]
       ELSE LET v == coreValidation(server.request.route,
                                    handlerParam(server.request, server.body))
            IN \E error \in IF v # NoError THEN {v} ELSE {NoError} \cup LedgerErrors :
                 server' = [server EXCEPT
                    !.called = coreOperation(server.request.route),
                    !.error = error,
                    !.mintLog = IF server.request.route = "POST /api/mint"
                                THEN logMint(@, handlerParam(server.request, server.body),
                                             error = NoError, error.message)
                                ELSE @,
                    !.retrieveLog = IF server.request.route = "GET /api/retrieve/:walletAddress"
                                    THEN logRetrieve(@, handlerParam(server.request, server.body),
                                                     error = NoError, error.message)
                                    ELSE @,
                    !.status = respond(error),
                    !.pc = "responded"]
    /\ UNCHANGED <<chain, files, deployRun, mintCall, getItemCall, retrieveCall, verifyCall, world>>

-----------------------------------------------------------------------------
(* mint() calls running side by side: each call has its own provider, wallet,
   contract object and transaction handle (mint.js 102-115, 135-156); what
   they share is the ledger and the files. *)

Callers == {1, 2}

\* The address in deployment.json and the address of another deployment.
OtherContractAddress == "0xC1"
ContractAddresses == {ContractAddress, OtherContractAddress}

\* The contract object of a call: the storage at its address and the
\* transaction handle of the call.
contractOf(w, p) ==
    [w.contracts[w.call[p].contractAddress.v] EXCEPT !.tx = w.tx[p]]

IdleWorld ==
    [contracts |-> [a \in ContractAddresses |-> GameItem(TRUE)],
     call |-> [p \in Callers |-> IdleMint],
     tx |-> [p \in Callers |-> NoTx],
     touched |-> [p \in Callers |-> {}]]   \* the addresses the ledger operations
                                           \* of the call went to

\* What the callers pass as config: the owner's key, and the persisted
\* contract address or the other one, through the built-in endpoint or
\* another.
WorldConfigs ==
    { Config(Undefined, Str("0x1111"), Undefined),
      Config(Str(OtherContractAddress), Str("0x1111"), Undefined),
      Config(Str(OtherContractAddress), Str("0x1111"), Str("https://rpc.example/")) }

\* Lines 67-126 for one of the calls.
WorldLoadConfig(p) ==
    /\ world.call[p].pc = "LoadingConfig"
    /\ LET call == world.call[p]
           a == loadContractAddress(call.config, files)
           k == loadPrivateKey(call.config, files)
       IN world' = [world EXCEPT !.call[p] =
            IF a.error # NoError THEN mintFails(call, a.error)
            ELSE IF k.error # NoError THEN mintFails(call, k.error)
            ELSE [call EXCEPT
                    !.pc = "Submitting",
                    !.contractAddress = a.value,
                    !.privateKey = k.value,
                    !.rpcUrl = resolveRpcUrl(call.config),
                    !.metadataJson = JsonStringify(buildMetadata(call.imageUrl, call.traits))]]
    /\ UNCHANGED <<chain, files, deployRun, mintCall, getItemCall, retrieveCall, verifyCall,
                   server>>

\* Lines 135-150 for one of the calls, one candidate at a time.
WorldSubmit(p) ==
    /\ world.call[p].pc = "Submitting"
    /\ LET call == world.call[p]
           fn == Candidates[Len(call.errors) + 1]
           signer == signerOf(call.privateKey)
           address == call.contractAddress.v
       IN \E answer \in SubmitAnswers(world.contracts[address], signer) :
            IF answer = "accepted"
            THEN world' = [world EXCEPT
                    !.call[p] = [call EXCEPT !.pc = "AwaitingConfirmation",
                                             !.accepted = fn,
                                             !.ledgerOps = Append(@, fn)],
                    !.touched[p] = @ \cup {address},
                    !.tx[p] = [status |-> "pending", fn |-> fn, sender |-> signer,
                               to |-> getAddress(call.destinationAddress.v),
                               metadata |-> call.metadataJson, tokenId |-> 0]]
            ELSE LET errors == Append(call.errors, submitError(fn, answer))
                     tried == [call EXCEPT !.errors = errors, !.ledgerOps = Append(@, fn)]
                 IN world' = [world EXCEPT
                       !.touched[p] = @ \cup {address},
                       !.call[p] = IF Len(errors) = Len(Candidates)
                                   THEN mintFails(tried, entryPointNotFound(errors))
                                   ELSE tried]
    /\ UNCHANGED <<chain, files, deployRun, mintCall, getItemCall, retrieveCall, verifyCall,
                   server>>

\* The ledger includes the pending transaction of one of the calls: the entry
\* point runs on the storage the contract has at that moment.
WorldIncludeTx(p) ==
    /\ world.tx[p].status = "pending"
    /\ LET address == world.call[p].contractAddress.v
           c == world.contracts[address]
       IN \E outOfGas \in BOOLEAN :
            IF outOfGas \/ mintReverts(c, world.tx[p].sender)
            THEN world' = [world EXCEPT !.tx[p].status = "reverted"]
            ELSE world' = [world EXCEPT
                    !.contracts[address] =
                        GameItemMint(c, world.tx[p].to, world.tx[p].metadata),
                    !.tx[p].status = "success",
                    !.tx[p].tokenId = c._nextTokenId]
    /\ UNCHANGED <<chain, files, deployRun, mintCall, getItemCall, retrieveCall, verifyCall,
                   server>>

\* Line 156 for one of the calls: tx.wait() finds the receipt of its own
\* transaction.
WorldWaitReceipt(p) ==
    /\ world.call[p].pc = "AwaitingConfirmation"
    /\ world.tx[p].status \in {"success", "reverted"}
    /\ \E hasLogs \in BOOLEAN :
         world' = [world EXCEPT !.call[p] =
                      waitReturns(world.call[p], receiptOf(contractOf(world, p), hasLogs))]
    /\ UNCHANGED <<chain, files, deployRun, mintCall, getItemCall, retrieveCall, verifyCall,
                   server>>

\* Lines 158-173 for one of the calls.
WorldExtractTokenId(p) ==
    /\ world.call[p].pc = "ExtractingTokenId"
    /\ LET call == world.call[p]
           r == extractTokenId(call.receipt)
       IN world' = [world EXCEPT !.call[p] =
            IF r.threw
            THEN mintFails(call, Error("TypeError", "Cannot read properties of undefined", ""))
            ELSE IF r.tokenId = <<>>
            THEN [call EXCEPT !.pc = "ReadingTotalSupply"]
            ELSE [call EXCEPT !.pc = "Resolved", !.tokenId = r.tokenId]]
    /\ UNCHANGED <<chain, files, deployRun, mintCall, getItemCall, retrieveCall, verifyCall,
                   server>>

\* Lines 175-193 for one of the calls: totalSupply() is read on the storage
\* the contract has when the read is answered.
WorldReadTotalSupply(p) ==
    /\ world.call[p].pc = "ReadingTotalSupply"
    /\ LET address == world.call[p].contractAddress.v
       IN \E answered \in BOOLEAN :
            world' = [world EXCEPT
               !.touched[p] = @ \cup {address},
               !.call[p] = [@ EXCEPT
                  !.pc = "Resolved",
                  !.ledgerOps = Append(@, "totalSupply"),
                  !.tokenId = IF answered
                              THEN tokenIdFromSupply(totalSupply(world.contracts[address]))
                              ELSE <<>>]]
    /\ UNCHANGED <<chain, files, deployRun, mintCall, getItemCall, retrieveCall, verifyCall,
                   server>>

-----------------------------------------------------------------------------
(* The ledger changing under a running retrieve(): other accounts transfer
   and the owner mints while the call makes its reads. *)

\* The metadata mint() writes for a sword.
SwordJson == JsonStringify(buildMetadata(Str("https://x/sword.png"),
                                         Traits("object", "Sword", Absent, "100")))

\* ERC721 transferFrom(from, to, tokenId), called by the holder of the token.
transferFrom(c, to, tokenId) == [c EXCEPT !.owners[tokenId] = to]

\* What the running call of retrieve() could have seen of the ledger `c`,
\* had it looked at this instant.
observed(call, c) ==
    [call EXCEPT !.heldSets = @ \cup {heldSet(c, call.walletAddress.v)},
                 !.heldThroughout = @ \cap heldSet(c, call.walletAddress.v),
                 !.ledgerChanges = @ + 1]

\* A call of retrieve() is making its reads, and the ledger may still change
\* under it.
RetrieveRunning ==
    /\ retrieveCall.pc \notin {"idle"} \cup RetrieveTerminal
    /\ retrieveCall.ledgerChanges < MaxLedgerChanges

LedgerTransfer ==
    /\ RetrieveRunning
    /\ \E tokenId \in DOMAIN chain.owners, to \in {OwnerAccount, OtherAccount} :
         /\ to # chain.owners[tokenId]
         /\ chain' = transferFrom(chain, to, tokenId)
    /\ retrieveCall' = observed(retrieveCall, chain')
    /\ UNCHANGED <<files, deployRun, mintCall, getItemCall, verifyCall, server, world>>

\* The owner mints one more token; the ledger of this model holds at most
\* MaxTokens + 1 of them.
LedgerMint ==
    /\ RetrieveRunning
    /\ chain._nextTokenId <= MaxTokens + 1
    /\ \E to \in {OwnerAccount, OtherAccount} : chain' = GameItemMint(chain, to, SwordJson)
    /\ retrieveCall' = observed(retrieveCall, chain')
    /\ UNCHANGED <<files, deployRun, mintCall, getItemCall, verifyCall, server, world>>

-----------------------------------------------------------------------------
(* Specifications *)

DeployNext == DeployStart \/ DeployPoll \/ DeployFinish

\* A checkout with or without an earlier deployment.json and with or without
\* the key file, and a freshly deployed contract. A behaviour is one run of
\* the deployment script, or calls of mint(), getItem() and retrieve() one
\* after the other; the two share nothing but the files.
Init ==
    /\ \E emits \in BOOLEAN : chain = GameItem(emits)
    /\ \E d \in {Missing, ContractAddress}, k \in {Missing, "1111"} :
         files = [deployment |-> d, privateKey |-> k]
    /\ deployRun = IdleDeploy
    /\ mintCall = IdleMint
    /\ getItemCall = IdleGetItem
    /\ retrieveCall = IdleRetrieve
    /\ verifyCall = IdleVerify
    /\ server = IdleServer
    /\ world = IdleWorld

\* A caller reads the contract before anything was minted.
ReadBeforeMint ==
    /\ mintCall.calls = 0
    /\ (GetItem \/ VerifyOwner \/ RetrieveStart)

Next ==
    \/ DeployNext \/ IncludeDeployTx
    \/ MintNext \/ IncludeTx
    \/ GetMintedItem \/ RetrieveMinted \/ RetrieveSteps
    \/ ReadBeforeMint

Spec == Init /\ [][Next]_vars

\* Every step of mint() is taken, the lookups of the waiting call included;
\* the ledger is not bound to include a transaction, and the endpoint not to
\* fail.
FairSpec ==
    /\ Spec
    /\ WF_vars(MintValidate) /\ WF_vars(MintCheckImage) /\ WF_vars(MintCheckTraits)
    /\ WF_vars(MintLoadConfig) /\ WF_vars(MintSubmit)
    /\ WF_vars(MintWaitLookup) /\ WF_vars(MintWaitReceipt)
    /\ WF_vars(MintExtractTokenId) /\ WF_vars(MintReadTotalSupply)

\* The token URIs found on a ledger.
LedgerBlobs ==
    { SwordJson,
      Blob(<<"data:application/json", ";base64", ",", "b64(", "{", "#obj", "}", ")">>,
           SwordJson.obj),
      Blob(<<"data:application/json", ",", "{", "#obj", "}">>, SwordJson.obj),
      Blob(<<"data:application/json", ";base64">>, NoObj),
      Blob(<<"{", "oops">>, NoObj),
      Blob(<<"http", "s://x/1.json">>, NoObj),
      Blob(<<"ipfs://", "Qm1">>, NoObj),
      Blob(<<"not-json-not-uri">>, NoObj) }

\* A contract with up to MaxTokens tokens, of any owners and token URIs, with
\* or without the Enumerable extension.
ReadInit ==
    /\ \E n \in 0..MaxTokens, e \in {"none", "asc", "desc"} :
         \E o \in [1..n -> {OwnerAccount, OtherAccount}], u \in [1..n -> LedgerBlobs] :
            chain = [GameItem(TRUE) EXCEPT !._nextTokenId = n + 1, !.owners = o,
                                           !.tokenURIs = u, !.enumerable = e]
    /\ \E d \in {Missing, ContractAddress} : files = [deployment |-> d, privateKey |-> Missing]
    /\ deployRun = IdleDeploy
    /\ mintCall = IdleMint
    /\ getItemCall = IdleGetItem
    /\ retrieveCall = IdleRetrieve
    /\ verifyCall = IdleVerify
    /\ server = IdleServer
    /\ world = IdleWorld

ReadNext == GetItem \/ VerifyOwner \/ RetrieveStart \/ RetrieveSteps

SpecRead == ReadInit /\ [][ReadNext]_vars

\* mint, safeMint and mintWithMetadata are public: any account may send a
\* transaction that calls one of them, with a gas limit of its own choosing,
\* and the ledger then runs the entry point.
SendTx ==
    /\ chain.tx.status # "pending"
    /\ chain._nextTokenId <= MaxTokens
    /\ \E sender \in {OwnerAccount, OtherAccount}, fn \in {Candidates[i] : i \in DOMAIN Candidates},
          to \in {OwnerAccount, OtherAccount},
          metadata \in {SwordJson, Blob(<<"ipfs://", "Qm1">>, NoObj)} :
         chain' = [chain EXCEPT !.tx = [status |-> "pending", fn |-> fn, sender |-> sender,
                                        to |-> to, metadata |-> metadata, tokenId |-> 0]]
    /\ UNCHANGED <<files, deployRun, mintCall, getItemCall, retrieveCall, verifyCall, server, world>>

\* A freshly deployed contract, called by its owner and by another account.
ContractInit ==
    /\ chain = GameItem(TRUE)
    /\ files = [deployment |-> ContractAddress, privateKey |-> Missing]
    /\ deployRun = IdleDeploy
    /\ mintCall = IdleMint
    /\ getItemCall = IdleGetItem
    /\ retrieveCall = IdleRetrieve
    /\ verifyCall = IdleVerify
    /\ server = IdleServer
    /\ world = IdleWorld

ContractNext == SendTx \/ IncludeTx

SpecContract == ContractInit /\ [][ContractNext]_vars

\* A contract that is at most SupplyMargin tokens short of MAX_SUPPLY: the
\* owner minted every token so far to itself.
SupplyInit ==
    /\ \E n \in (MAX_SUPPLY - SupplyMargin)..MAX_SUPPLY :
         chain = [GameItem(TRUE) EXCEPT
                    !._nextTokenId = n + 1,
                    !.owners = [t \in 1..n |-> OwnerAccount],
                    !.tokenURIs = [t \in 1..n |-> SwordJson]]
    /\ files = [deployment |-> ContractAddress, privateKey |-> Missing]
    /\ deployRun = IdleDeploy
    /\ mintCall = IdleMint
    /\ getItemCall = IdleGetItem
    /\ retrieveCall = IdleRetrieve
    /\ verifyCall = IdleVerify
    /\ server = IdleServer
    /\ world = IdleWorld

\* The owner calls mint or safeMint, the two entry points with a require of
\* their own, as often as it likes.
OwnerSendTx ==
    /\ chain.tx.status # "pending"
    /\ \E fn \in {"mint", "safeMint"} :
         chain' = [chain EXCEPT !.tx = [status |-> "pending", fn |-> fn,
                                        sender |-> OwnerAccount, to |-> OwnerAccount,
                                        metadata |-> SwordJson, tokenId |-> 0]]
    /\ UNCHANGED <<files, deployRun, mintCall, getItemCall, retrieveCall, verifyCall, server, world>>

SupplyNext == OwnerSendTx \/ IncludeTx

SpecSupply == SupplyInit /\ [][SupplyNext]_vars

\* A server started with or without endpoint_key.txt, serving requests one
\* after the other.
ServerInit ==
    /\ chain = GameItem(TRUE)
    /\ files = [deployment |-> ContractAddress, privateKey |-> Missing]
    /\ deployRun = IdleDeploy
    /\ mintCall = IdleMint
    /\ getItemCall = IdleGetItem
    /\ retrieveCall = IdleRetrieve
    /\ verifyCall = IdleVerify
    /\ \E f \in EndpointKeyFiles : server = [IdleServer EXCEPT !.endpointKey = f]
    /\ world = IdleWorld

ServerNext == ServerReceive \/ ServerAuthenticate \/ ServerUpload \/ ServerHandle

SpecServer == ServerInit /\ [][ServerNext]_vars

\* Two calls of mint() with well-formed arguments are running, each with the
\* config its caller passed; deployment.json holds the first deployment.
WorldInit ==
    /\ chain = GameItem(TRUE)
    /\ files = [deployment |-> ContractAddress, privateKey |-> Missing]
    /\ deployRun = IdleDeploy
    /\ mintCall = IdleMint
    /\ getItemCall = IdleGetItem
    /\ retrieveCall = IdleRetrieve
    /\ verifyCall = IdleVerify
    /\ server = IdleServer
    /\ \E cfg \in [Callers -> WorldConfigs] :
         world = [IdleWorld EXCEPT !.call =
                    [p \in Callers |->
                       [IdleMint EXCEPT !.pc = "LoadingConfig", !.calls = 1,
                                        !.destinationAddress = Str("0xBb"),
                                        !.imageUrl = Str("https://x/sword.png"),
                                        !.traits = Traits("object", "Sword", Absent, "100"),
                                        !.config = cfg[p]]]]

WorldNext ==
    \E p \in Callers :
       \/ WorldLoadConfig(p) \/ WorldSubmit(p) \/ WorldIncludeTx(p)
       \/ WorldWaitReceipt(p) \/ WorldExtractTokenId(p) \/ WorldReadTotalSupply(p)

SpecConcurrent == WorldInit /\ [][WorldNext]_vars

\* A contract with up to MaxTokens tokens, with or without the Enumerable
\* extension, and one call of retrieve() for the tokens of the owner account
\* while tokens are transferred and minted.
RaceInit ==
    /\ \E n \in 0..MaxTokens, e \in {"none", "asc", "desc"} :
         \E o \in [1..n -> {OwnerAccount, OtherAccount}] :
            chain = [GameItem(TRUE) EXCEPT !._nextTokenId = n + 1, !.owners = o,
                                           !.tokenURIs = [k \in 1..n |-> SwordJson],
                                           !.enumerable = e]
    /\ files = [deployment |-> ContractAddress, privateKey |-> Missing]
    /\ deployRun = IdleDeploy
    /\ mintCall = IdleMint
    /\ getItemCall = IdleGetItem
    /\ retrieveCall = IdleRetrieve
    /\ verifyCall = IdleVerify
    /\ server = IdleServer
    /\ world = IdleWorld

RaceRetrieveStart ==
    retrieveStart({Str(OwnerAccount)}, {Config(Undefined, Undefined, Undefined)})

RaceNext == RaceRetrieveStart \/ RetrieveSteps \/ LedgerTransfer \/ LedgerMint

SpecRace == RaceInit /\ [][RaceNext]_vars

-----------------------------------------------------------------------------
(* Properties of mint() and of the deployment script *)

\* The request of the running mint() call is malformed: the destination is no
\* well-formed address, the image reference is empty or no string, or the
\* traits are null or no object.
MalformedMintRequest ==
    \/ mintCall.destinationAddress.t # "string"
    \/ mintCall.destinationAddress.v \notin WellFormedAddresses
    \/ mintCall.imageUrl.t # "string" \/ mintCall.imageUrl.v = ""
    \/ mintCall.traits.t # "object"

\* C1: a mint() call with a malformed destination address, image reference or
\* traits never leaves the validation steps except to Failed with a
\* ValidationError, and at no point of the call has it submitted
\* mint/safeMint/mintWithMetadata, looked a receipt up or read totalSupply.
C1_MalformedRequestFailsBeforeLedger ==
    (mintCall.pc # "idle" /\ MalformedMintRequest) =>
        /\ mintCall.pc \in {"Validating", "CheckingImage", "CheckingTraits", "Failed"}
        /\ (mintCall.pc = "Failed" => mintCall.error.kind = "ValidationError")
        /\ mintCall.ledgerOps = <<>> /\ mintCall.lookups = 0 /\ mintCall.accepted = ""
        /\ chain.tx = NoTx

\* A call that passed the address and image checks and failed on null traits.
C1_Witness ==
    /\ mintCall.pc = "Failed"
    /\ mintCall.traits = NullTraits
    /\ isAddress(mintCall.destinationAddress)
    /\ mintCall.imageUrl = Str("https://x/sword.png")
    /\ mintCall.error = Error("ValidationError", "Traits must be a valid object", "")
    /\ mintCall.ledgerOps = <<>>

\* mint() has failed after each of the three candidates raised at submission.
AllCandidatesRaised ==
    mintCall.pc = "Failed" /\ Len(mintCall.errors) = Len(Candidates)

\* C2 as stated: when every candidate raises at submission, mint() fails with
\* the entry-point-not-found error carrying the error of the candidate tried
\* last.
C2_CarriesLastError ==
    AllCandidatesRaised =>
        /\ mintCall.error.kind = "MintEntryPointNotFound"
        /\ mintCall.error.cause = mintCall.errors[Len(mintCall.errors)]

\* C2: when every candidate raises at submission, mint() fails with the
\* entry-point-not-found error carrying the error of the candidate tried
\* first (mint), after all three were tried in order.
C2_CarriesFirstError ==
    AllCandidatesRaised =>
        /\ mintCall.error.kind = "MintEntryPointNotFound"
        /\ mintCall.error.cause = mintCall.errors[1]
        /\ mintCall.ledgerOps = Candidates

\* The three candidates raised and the first error is not the last.
C2_Witness ==
    /\ AllCandidatesRaised
    /\ mintCall.errors[1] # mintCall.errors[Len(mintCall.errors)]

\* The deployment script ended without any lookup having returned a receipt.
DeployNeverSawReceipt ==
    /\ deployRun.pc = "exited" /\ chain.deployTx # "none"
    /\ deployRun.receipt = NoReceipt

MintRunning == mintCall.pc \notin {"idle"} \cup MintTerminal

\* mint() waits for a transaction the ledger has not included.
MintWaitsForInclusion ==
    mintCall.pc = "AwaitingConfirmation" /\ chain.tx.status = "pending"

C5_RejectedNeverSucceeds ==
    /\ (mintCall.pc \in MintTerminal /\ chain.tx.status = "reverted" =>
            mintCall.pc = "Failed" /\ mintCall.tokenId = <<>>)
    /\ (deployRun.pc = "exited" /\ deployRun.receipt = "reverted" =>
            deployRun.exitCode = 1 /\ ~deployRun.wrote)

\* The script saw the rejected receipt, wrote deployment.json and exited with 0.
C5_Witness ==
    /\ deployRun.pc = "exited" /\ deployRun.receipt = "reverted"
    /\ deployRun.exitCode = 0 /\ deployRun.wrote
    /\ files.deployment = ContractAddress

\* C6 as stated: once the write is confirmed successfully mint() does not
\* fail: a receipt without a Transfer event it can parse sends it to the
\* totalSupply() read, and it resolves whether or not that read answers.
C6_ResolvesOnceConfirmed ==
    mintCall.receipt.status = "success" =>
        /\ mintCall.pc # "Failed"
        /\ (mintCall.pc = "Resolved" /\ mintCall.receipt.transfer = <<>> =>
                mintCall.ledgerOps = <<mintCall.accepted, "totalSupply">>)

\* The write succeeded, its receipt has logs and no Transfer event among them,
\* and mint() failed.
C6_Witness ==
    /\ mintCall.pc = "Failed" /\ mintCall.error.kind = "TypeError"
    /\ mintCall.receipt.status = "success" /\ mintCall.receipt.logs = "present"
    /\ chain.tx.status = "success"

\* mint() resolved with a token id against a contract that emits Transfer as
\* GameItem does; the model has one mint in flight at a time.
MintedOnGameItem ==
    mintCall.pc = "Resolved" /\ mintCall.tokenId # <<>> /\ chain.emitsTransfer

itemIds(items) == [k \in 1..Len(items) |-> items[k].tokenId]

-----------------------------------------------------------------------------
(* Properties of getItem() and retrieve() *)

\* The first rule of the decoding a blob matches: 1 the data:application/json
\* prefix, 2 a leading "{", 3 a leading "http", 4 none of them.
FirstRule(uri) ==
    IF uri.text = <<>> THEN 4
    ELSE IF Head(uri.text) = "data:application/json" THEN 1
    ELSE IF Head(uri.text) = "{" THEN 2
    ELSE IF Head(uri.text) = "http" THEN 3
    ELSE 4

\* The text after the first comma is the base64 of the JSON text of uri.obj.
EmbedsBase64Json(uri) ==
    \E i \in 1..Len(uri.text) :
        /\ uri.text[i] = "," /\ \A j \in 1..(i - 1) : uri.text[j] # ","
        /\ SubSeq(uri.text, i + 1, Len(uri.text)) = <<"b64(", "{", "#obj", "}", ")">>

\* m is what the decoding of uri must come to under its first matching rule.
DecodedByFirstRule(uri, m) ==
    CASE FirstRule(uri) = 1 ->
            /\ m.kind \in {"object", "null", "throws"}
            /\ m.kind = "object" <=> (EmbedsBase64Json(uri) /\ uri.obj # NoObj)
            /\ m.kind = "object" => m = MetaValue("object", uri.obj, NoBlob)
      [] FirstRule(uri) = 2 ->
            /\ m.kind \in {"object", "null", "throws"}
            /\ m.kind = "object" <=> (uri.text = <<"{", "#obj", "}">> /\ uri.obj # NoObj)
            /\ m.kind = "object" => m = MetaValue("object", uri.obj, NoBlob)
      [] FirstRule(uri) = 3 -> m = MetaValue("uri", NoObj, uri)
      [] OTHER -> m = MetaValue("raw", NoObj, uri)

\* C9: both decoders classify the blob of every token by the first matching
\* rule, in the order data:application/json prefix (base64-decode, then
\* parse), leading "{" (parse), leading "http" ({uri: blob}), anything else
\* ({raw: blob}); a blob matching none of the first three never makes the
\* decoding throw; and the metadata getItem() and retrieve() return is the
\* one so decoded.
C9_DecodingByFirstRule ==
    /\ \A n \in DOMAIN chain.tokenURIs :
          LET uri == tokenURI(chain, n)
          IN /\ DecodedByFirstRule(uri, retrieveDecode(uri))
             /\ DecodedByFirstRule(uri, getItemDecode(uri))
    /\ (getItemCall.pc = "done" /\ getItemCall.result.metadata # NullMetadata =>
            DecodedByFirstRule(tokenURI(chain, getItemCall.result.tokenId),
                               getItemCall.result.metadata))
    /\ \A k \in 1..Len(retrieveCall.items) :
          LET item == retrieveCall.items[k]
          IN item.metadata # NullMetadata =>
                DecodedByFirstRule(tokenURI(chain, item.tokenId), item.metadata)

\* retrieve() returned one entry decoded to {raw: blob} and one parsed from
\* the embedded base64 JSON.
C9_Witness ==
    /\ retrieveCall.pc = "done"
    /\ \E j, k \in 1..Len(retrieveCall.items) :
          /\ retrieveCall.items[j].metadata.kind = "raw"
          /\ retrieveCall.items[j].metadata.blob = Blob(<<"not-json-not-uri">>, NoObj)
          /\ retrieveCall.items[k].metadata.kind = "object"
          /\ FirstRule(tokenURI(chain, retrieveCall.items[k].tokenId)) = 1

\* C10: once a tokenOfOwnerByIndex lookup has failed after the balance was
\* read, the ids the indexed pass had collected are dropped, the scan runs,
\* and the ids retrieve() works on and returns are exactly those the scan
\* found, in the order it found them.
C10_ScanResultAfterIndexFailure ==
    retrieveCall.indexFailed =>
        /\ retrieveCall.balanceNumber > 0
        /\ retrieveCall.tokenIds = retrieveCall.scanned
        /\ (retrieveCall.pc \in {"FetchingMetadata", "done"} => retrieveCall.scanRan)
        /\ (retrieveCall.pc = "done" =>
                itemIds(retrieveCall.items) = retrieveCall.scanned)

\* The second index lookup failed after the first had answered, and the id
\* the first had given is not in the result, the scan not having found it.
C10_Witness ==
    /\ retrieveCall.pc = "done" /\ retrieveCall.indexFailed
    /\ Len(retrieveCall.indexed) = 1
    /\ retrieveCall.items # <<>>
    /\ \A k \in 1..Len(retrieveCall.items) :
          retrieveCall.items[k].tokenId # retrieveCall.indexed[1]

\* The address retrieve() was called with holds no token of the ledger.
WalletHoldsNothing ==
    /\ retrieveCall.pc # "idle" /\ isAddress(retrieveCall.walletAddress)
    /\ \A n \in DOMAIN chain.owners :
          toLowerCase(chain.owners[n]) # toLowerCase(retrieveCall.walletAddress.v)

\* C11: for an address that holds no token retrieve() collects no id and, when
\* it returns, returns the empty list: at once when balanceOf() answers 0, and
\* after the scan when the balance read failed.
C11_NothingHeldNothingReturned ==
    WalletHoldsNothing =>
        /\ retrieveCall.tokenIds = <<>> /\ retrieveCall.items = <<>>
        /\ retrieveCall.pc \notin {"Indexing", "FetchingMetadata"}
        /\ (retrieveCall.pc = "done" /\ ~retrieveCall.scanRan => retrieveCall.balanceNumber = 0)

\* The balance read failed, the scan went through a ledger of two tokens held
\* by another account, and retrieve() returned the empty list.
C11_Witness ==
    /\ WalletHoldsNothing
    /\ retrieveCall.pc = "done" /\ retrieveCall.scanRan /\ ~retrieveCall.indexFailed
    /\ retrieveCall.total = 2 /\ retrieveCall.failedQueries = {}
    /\ retrieveCall.items = <<>>

\* The ids of 1..n whose owner query answered with the address of the call,
\* whatever the case of the spellings, in ascending order.
RECURSIVE MatchingUpTo(_)
MatchingUpTo(n) ==
    IF n = 0 THEN <<>>
    ELSE IF /\ n \notin retrieveCall.failedQueries
            /\ n \in DOMAIN chain.owners
            /\ toLowerCase(chain.owners[n]) = toLowerCase(retrieveCall.walletAddress.v)
         THEN Append(MatchingUpTo(n - 1), n)
         ELSE MatchingUpTo(n - 1)

\* C12: the scan reads the total supply n and examines every id of 1..n in
\* ascending order: what it has collected after examining 1..k is exactly the
\* ids of 1..k whose owner query answered with the address, compared without
\* regard to case; a failed owner query skips that id only.
C12_ScanCollectsMatchingIds ==
    retrieveCall.scanRan =>
        /\ retrieveCall.total = totalSupply(chain)
        /\ (retrieveCall.pc = "Scanning" =>
                /\ retrieveCall.tokenId \in 1..retrieveCall.total
                /\ retrieveCall.scanned = MatchingUpTo(retrieveCall.tokenId - 1))
        /\ (retrieveCall.pc \in {"FetchingMetadata", "done"} =>
                /\ retrieveCall.scanned = MatchingUpTo(retrieveCall.total)
                /\ retrieveCall.tokenIds = retrieveCall.scanned)

\* The owner query of token 1 failed and token 2, held under another spelling
\* of the address, was collected.
C12_Witness ==
    /\ retrieveCall.pc = "done" /\ retrieveCall.scanRan
    /\ retrieveCall.failedQueries = {1} /\ retrieveCall.scanned = <<2>>
    /\ chain.owners[2] # retrieveCall.walletAddress.v

\* The entry of a token whose metadata could not be fetched or parsed.
FailedEntry(item) ==
    /\ item.metadata = NullMetadata /\ item.error # Absent
    /\ item.traits = AbsentTraits /\ item.name = Absent

\* The entry of a token whose URI was fetched and decoded.
DecodedEntry(item) ==
    /\ item.error = Absent
    /\ item.metadata = retrieveDecode(tokenURI(chain, item.tokenId))
    /\ item.metadata.kind \in {"object", "uri", "raw"}
    /\ item.traits = traitsOf(item.metadata)

\* C13: retrieve() builds one entry per discovered id, in the order of
\* discovery, and a token whose metadata fails does not end the batch: its
\* entry has the token id, metadata null and an error string, every other
\* entry is the decoded one, and the list returned has as many entries as
\* ids were discovered.
C13_OneEntryPerDiscoveredToken ==
    /\ Len(retrieveCall.items) <= Len(retrieveCall.tokenIds)
    /\ \A k \in 1..Len(retrieveCall.items) :
          LET item == retrieveCall.items[k]
          IN /\ item.tokenId = retrieveCall.tokenIds[k]
             /\ FailedEntry(item) \/ DecodedEntry(item)
             /\ (/\ startsWith(tokenURI(chain, item.tokenId), "{")
                 /\ jsonParse(tokenURI(chain, item.tokenId).text,
                              tokenURI(chain, item.tokenId).obj) = "throws")
                    => FailedEntry(item)
    /\ (retrieveCall.pc = "done" => Len(retrieveCall.items) = Len(retrieveCall.tokenIds))
    /\ (retrieveCall.pc = "FetchingMetadata" =>
            Len(retrieveCall.items) < Len(retrieveCall.tokenIds))

\* The first of two tokens has a URI that does not parse and the second was
\* decoded after it.
C13_Witness ==
    /\ retrieveCall.pc = "done" /\ Len(retrieveCall.items) = 2
    /\ FailedEntry(retrieveCall.items[1])
    /\ tokenURI(chain, retrieveCall.items[1].tokenId) = Blob(<<"{", "oops">>, NoObj)
    /\ DecodedEntry(retrieveCall.items[2])
    /\ retrieveCall.items[2].metadata.kind = "object"

\* getItem() and verifyOwner() both returned, for the same token id, on the
\* same ledger.
BothAnswered ==
    /\ getItemCall.pc = "done" /\ verifyCall.pc = "done"
    /\ verifyCall.result.tokenId = getItemCall.result.tokenId

\* C14: for an existing token and a well-formed address, on the same ledger
\* state, verifyOwner(address, id).isOwner is true exactly when
\* getItem(id).owner is the address up to the case of the spelling, and
\* actualOwner is getItem(id).owner.
C14_VerifyOwnerAgreesWithGetItem ==
    BothAnswered =>
        /\ verifyCall.result.actualOwner = getItemCall.result.owner
        /\ verifyCall.result.isOwner <=>
              (toLowerCase(getItemCall.result.owner)
                  = toLowerCase(verifyCall.walletAddress.v))
        /\ verifyCall.result.actualOwner = chain.owners[getItemCall.result.tokenId]

\* The address is the owner under another spelling, and verifyOwner() says so.
C14_Witness ==
    /\ BothAnswered
    /\ verifyCall.result.isOwner
    /\ verifyCall.walletAddress.v # getItemCall.result.owner

\* The id is a number the ledger never minted.
NeverMinted(tokenId) ==
    /\ validateTokenId(tokenId) = NoError
    /\ toNumber(tokenId) \notin DOMAIN chain.owners

\* C15: getItem() and verifyOwner() asked, with valid arguments, for an id
\* that was never minted do not return: they fail, and once the contract
\* address is resolved (always, with deployment.json in place) the error is
\* the one saying the token does not exist or has been burned.
C15_NeverMintedIsTokenNotFound ==
    /\ (getItemCall.pc # "idle" /\ NeverMinted(getItemCall.tokenId)) =>
          /\ getItemCall.pc = "failed" /\ getItemCall.result = NoItem
          /\ getItemCall.error.kind \in {"TokenNotFound", "ConfigurationError"}
          /\ (files.deployment # Missing =>
                getItemCall.error = tokenNotFound(getItemCall.tokenId))
    /\ (/\ verifyCall.pc # "idle" /\ NeverMinted(verifyCall.tokenId)
        /\ isAddress(verifyCall.walletAddress)) =>
          /\ verifyCall.pc = "failed" /\ verifyCall.result = NoVerification
          /\ verifyCall.error.kind \in {"TokenNotFound", "ConfigurationError"}
          /\ (files.deployment # Missing =>
                verifyCall.error = tokenNotFound(verifyCall.tokenId))

\* Both calls were asked for token 3 of a ledger of two tokens and failed with
\* the token-not-found error.
C15_Witness ==
    /\ totalSupply(chain) = 2
    /\ getItemCall.tokenId = Num("3") /\ verifyCall.tokenId = Num("3")
    /\ getItemCall.pc = "failed" /\ verifyCall.pc = "failed"
    /\ getItemCall.error.kind = "TokenNotFound"
    /\ verifyCall.error.message = "Token ID 3 does not exist or has been burned"

-----------------------------------------------------------------------------
(* Properties of the configuration *)

\* The files with deployment.json absent, naming the contract, or naming
\* another address than the one a config gives.
DeploymentStores ==
    { [files EXCEPT !.deployment = d] : d \in {Missing, ContractAddress, "0xC1"} }

\* The stored key as read: trimmed, and prefixed with 0x when it has none.
StoredKey ==
    IF files.privateKey = Missing \/ startsWith0x(files.privateKey) THEN files.privateKey
    ELSE "0x" \o files.privateKey

\* What the precedence override, then persisted default, gives for a field.
Preferred(override, persisted) ==
    IF ~Falsy(override) THEN override
    ELSE IF persisted # Missing THEN Str(persisted)
    ELSE Undefined

\* The running mint() call has no contract address, or no signing key, in
\* its config and in the files.
MintConfigAbsent ==
    /\ mintCall.pc # "idle"
    /\ \/ Preferred(mintCall.config.contractAddress, files.deployment) = Undefined
       \/ Preferred(mintCall.config.privateKey, files.privateKey) = Undefined

MintPastConfig ==
    mintCall.pc \in {"Submitting", "AwaitingConfirmation", "ExtractingTokenId",
                     "ReadingTotalSupply", "Resolved"}
        \/ mintCall.ledgerOps # <<>>

\* C16: the contract address and the signing key are the field of the call's
\* config when it is set and the stored one otherwise, the endpoint is
\* config.rpcUrl or else the built-in URL; mint() with no contract address
\* or no key in either place fails with a configuration error (unless its
\* arguments already failed validation) and issues no ledger request; the
\* reads resolve the address the same way and, failing on it, have read
\* nothing from the ledger.
C16_ConfigPrecedence ==
    /\ MintPastConfig =>
          /\ mintCall.contractAddress
                = Preferred(mintCall.config.contractAddress, files.deployment)
          /\ mintCall.privateKey = Preferred(mintCall.config.privateKey, StoredKey)
          /\ mintCall.rpcUrl
                = Preferred(mintCall.config.rpcUrl, "https://polygon-rpc.com/")
    /\ MintConfigAbsent =>
          /\ ~MintPastConfig /\ mintCall.lookups = 0 /\ chain.tx = NoTx
          /\ (mintCall.pc = "Failed" =>
                mintCall.error.kind \in {"ValidationError", "ConfigurationError"})
          /\ (mintCall.pc = "Failed" /\ validateTraits(mintCall.traits) = NoError
              /\ mintCall.error.kind # "ValidationError" =>
                mintCall.error.kind = "ConfigurationError")
    /\ \A fs \in DeploymentStores, cfg \in ReadConfigs :
          LET a == loadContractAddress(cfg, fs)
              want == Preferred(cfg.contractAddress, fs.deployment)
          IN /\ (want = Undefined <=> a.error # NoError)
             /\ (a.error # NoError => a.error.kind = "ConfigurationError")
             /\ a.value = want
             /\ resolveRpcUrl(cfg) = Preferred(cfg.rpcUrl, "https://polygon-rpc.com/")
    /\ (getItemCall.error.kind = "ConfigurationError" =>
            getItemCall.pc = "failed" /\ getItemCall.result = NoItem)
    /\ (verifyCall.error.kind = "ConfigurationError" =>
            verifyCall.pc = "failed" /\ verifyCall.result = NoVerification)
    /\ (retrieveCall.error.kind = "ConfigurationError" =>
            /\ retrieveCall.pc = "failed" /\ retrieveCall.items = <<>>
            /\ retrieveCall.balanceNumber = 0 /\ ~retrieveCall.scanRan)
    /\ \A call \in {getItemCall, verifyCall, retrieveCall} :
          call.error.kind = "ConfigurationError" => files.deployment = Missing

\* A second mint() call, with deployment.json in place and no key in its
\* config nor in the key file, failed on the configuration before any ledger
\* request.
C16_Witness ==
    /\ mintCall.calls = 2 /\ mintCall.pc = "Failed"
    /\ mintCall.error = Error("ConfigurationError",
                              "Private key not provided and polygon_private_key.txt not found", "")
    /\ mintCall.config.contractAddress = Undefined /\ files.deployment = ContractAddress
    /\ mintCall.ledgerOps = <<>>

\* The errors that speak of the signing key.
KeyErrors ==
    { "Private key not provided and polygon_private_key.txt not found",
      "Invalid private key format" }

\* The read calls resolve their configuration to the same thing with and
\* without a key in the config and in the key file.
ReadsIgnoreKey ==
    \A cfg \in ReadConfigs, k \in {Missing, "1111"} :
        loadContractAddress(cfg, [files EXCEPT !.privateKey = k])
            = loadContractAddress([cfg EXCEPT !.privateKey = Undefined],
                                  [files EXCEPT !.privateKey = Missing])

\* A step of getItem(), verifyOwner() or retrieve().
ReadStep ==
    \/ getItemCall' # getItemCall
    \/ verifyCall' # verifyCall
    \/ retrieveCall' # retrieveCall

\* C17: getItem(), verifyOwner() and retrieve() never ask for the signing
\* key: they resolve their configuration alike with and without one, none of
\* them fails for want of a key, they submit no transaction, and their steps
\* leave the ledger, the files and the mint call as they were.
C17_ReadsNeedNoKeyAndWriteNothing ==
    /\ [](/\ ReadsIgnoreKey
          /\ \A call \in {getItemCall, verifyCall, retrieveCall} :
                call.error.message \notin KeyErrors
          /\ chain.tx = NoTx)
    /\ [][ReadStep => /\ chain' = chain /\ files' = files
                      /\ mintCall' = mintCall /\ deployRun' = deployRun]_vars

\* With no key file, getItem() and verifyOwner() both returned for a token.
C17_Witness ==
    /\ files.privateKey = Missing
    /\ getItemCall.pc = "done" /\ verifyCall.pc = "done"
    /\ getItemCall.result.metadata.kind = "object"
    /\ ~verifyCall.result.isOwner

-----------------------------------------------------------------------------
(* Properties of the GameItem contract *)

\* The ledger has just run the pending call of an account that is not the owner.
ForeignCallIncluded ==
    /\ chain.tx.status = "pending" /\ chain'.tx.status # "pending"
    /\ chain.tx.sender # chain.owner

\* C18: only the contract owner creates tokens. A call of mint, safeMint or
\* mintWithMetadata sent by any other account reverts and leaves the next
\* token id, every owner and every stored metadata as they were; and the next
\* token id, the owners and the metadata change only when a call of the owner
\* is run.
C18_OnlyOwnerMints ==
    /\ [][ForeignCallIncluded =>
            /\ chain'.tx.status = "reverted"
            /\ chain'._nextTokenId = chain._nextTokenId
            /\ chain'.owners = chain.owners
            /\ chain'.tokenURIs = chain.tokenURIs]_vars
    /\ [][(\/ chain'._nextTokenId # chain._nextTokenId
           \/ chain'.owners # chain.owners
           \/ chain'.tokenURIs # chain.tokenURIs)
          => chain.tx.status = "pending" /\ chain.tx.sender = chain.owner]_vars

\* The owner minted a token, and then another account called safeMint for
\* itself: the call reverted and the ledger still holds the one token.
C18_Witness ==
    /\ chain.tx.status = "reverted"
    /\ chain.tx.sender = OtherAccount /\ chain.tx.to = OtherAccount
    /\ chain.tx.fn = "safeMint"
    /\ chain._nextTokenId = 2
    /\ DOMAIN chain.owners = {1}

-----------------------------------------------------------------------------
(* Properties of the HTTP server *)

\* The keys the request being served carries, wherever it carries them.
CarriedKeys ==
    {k \in {server.request.headerKey, server.request.queryKey, server.request.bodyKey} :
        ~Falsy(k)}

CarriesStoredKey ==
    /\ server.endpointKey # Missing
    /\ Str(trim(server.endpointKey)) \in CarriedKeys

Answered == server.pc = "responded" /\ server.request.route \in AuthenticatedRoutes

\* No core operation is called and no audit log line is written for a request
\* that does not carry the stored key.
NoOperationWithoutKey ==
    /\ [](server.called # "none" => CarriesStoredKey)
    /\ [][(server'.mintLog # server.mintLog \/ server'.retrieveLog # server.retrieveLog)
          => CarriesStoredKey]_vars

\* C19 as stated: a request to an /api endpoint reaches a core operation or
\* writes an audit log line only if it carries the key stored in
\* endpoint_key.txt; a request that carries no key is answered 401 and a
\* request that carries keys other than the stored one is answered 403; only
\* /health is served without a key.
C19_KeyGatesEveryApiRoute ==
    /\ NoOperationWithoutKey
    /\ [](Answered /\ CarriedKeys = {} => server.status = 401)
    /\ [](Answered /\ CarriedKeys # {} /\ server.endpointKey # Missing /\ ~CarriesStoredKey
            => server.status = 403)
    /\ [](server.pc = "responded" /\ server.status = 200 /\ ~CarriesStoredKey
            => server.request.route = "GET /health")

\* A multipart POST /api/mint whose only key, a wrong one, is a field of the
\* body was answered 401 and not 403.
C19_Witness ==
    /\ Answered
    /\ server.request.contentType = "multipart/form-data"
    /\ CarriedKeys = {Str("k-other")}
    /\ server.endpointKey # Missing
    /\ server.status = 401
    /\ server.called = "none" /\ server.mintLog = <<>>

\* The request being served carries the stored key in exactly one of the
\* three places and no key in the other two.
StoredKeyInOnePlace ==
    /\ CarriesStoredKey
    /\ \E place \in {"header", "query", "body"} :
         /\ server.request.headerKey = IF place = "header" THEN Str(trim(server.endpointKey))
                                       ELSE Undefined
         /\ server.request.queryKey = IF place = "query" THEN Str(trim(server.endpointKey))
                                      ELSE Undefined
         /\ server.request.bodyKey = IF place = "body" THEN Str(trim(server.endpointKey))
                                     ELSE Undefined

\* C20 as stated: on every authenticated route, the multipart POST /api/mint
\* included, a request that supplies the stored key in the X-API-Key header,
\* in the apiKey query parameter or in the apiKey field of the body passes
\* authenticate.
C20_KeyAcceptedInEveryPlace ==
    server.pc \in {"upload", "handler", "responded"}
       /\ server.request.route \in AuthenticatedRoutes
       /\ StoredKeyInOnePlace
    => server.authenticated

\* A multipart POST /api/mint with every required field and the stored key in
\* the apiKey field of the body was answered 401, and mint() was not called.
C20_Witness ==
    /\ server.pc = "responded"
    /\ server.request.route = "POST /api/mint"
    /\ server.request.contentType = "multipart/form-data"
    /\ ~Falsy(server.request.param)
    /\ StoredKeyInOnePlace /\ server.request.bodyKey = Str(EndpointKey)
    /\ ~server.authenticated /\ server.status = 401
    /\ server.called = "none"

\* The request being served passed authenticate, and the parameter of its
\* route is missing or is one the core operation rejects.
BadParameter ==
    /\ server.pc = "responded" /\ server.authenticated
    /\ \/ Falsy(server.request.param)
       \/ coreValidation(server.request.route, server.request.param) # NoError

\* C21 as stated: an authenticated request whose parameter is missing or
\* invalid is answered 400, and an answer of 500 comes from a server or
\* ledger error only, never from a rejected parameter.
C21_BadParameterIs400 ==
    /\ (BadParameter => server.status = 400)
    /\ (server.pc = "responded" /\ server.status = 500
          => server.error.kind # "ValidationError")

\* GET /api/retrieve/:walletAddress with a malformed address: retrieve() was
\* called, raised "Invalid wallet address", and the answer was 500.
C21_Witness ==
    /\ server.pc = "responded"
    /\ server.request.route = "GET /api/retrieve/:walletAddress"
    /\ server.request.param = Str("not-an-address")
    /\ server.called = "retrieve"
    /\ server.error = Error("ValidationError", "Invalid wallet address", "")
    /\ server.status = 500 /\ Len(server.retrieveLog) = 1

-----------------------------------------------------------------------------
(* Properties of the submission and of the confirmation of a mint *)

\* The entry points the running call of mint() invoked, in the order it
\* invoked them.
Invoked == SelectSeq(mintCall.ledgerOps, LAMBDA op : op # "totalSupply")

\* C22: mint() invokes the entry points in the order mint, safeMint,
\* mintWithMetadata; every entry point before the one invoked last raised at
\* submission; the accepted entry point is the one invoked last, so nothing is
\* invoked after it; and a call has at most one accepted write: a transaction
\* is sent only by a call that has none accepted yet.
C22_CandidatesInOrderOneAccepted ==
    /\ [](/\ Len(Invoked) <= 3
          /\ \A i \in 1..Len(Invoked) :
                Invoked[i] = <<"mint", "safeMint", "mintWithMetadata">>[i]
          /\ IF mintCall.accepted = ""
             THEN Len(mintCall.errors) = Len(Invoked)
             ELSE /\ Invoked[Len(Invoked)] = mintCall.accepted
                  /\ Len(mintCall.errors) = Len(Invoked) - 1)
    /\ [][chain'.tx # chain.tx /\ chain'.tx.status = "pending"
            => /\ mintCall.accepted = "" /\ mintCall'.accepted = chain'.tx.fn
               /\ mintCall'.calls = mintCall.calls]_vars
    /\ [][mintCall.accepted # "" /\ mintCall'.calls = mintCall.calls
            => mintCall'.accepted = mintCall.accepted /\ mintCall'.errors = mintCall.errors]_vars

\* mint and safeMint raised at submission, mintWithMetadata was accepted, and
\* the call resolved.
C22_Witness ==
    /\ mintCall.pc = "Resolved"
    /\ Len(mintCall.errors) = 2
    /\ mintCall.accepted = "mintWithMetadata"
    /\ chain.tx.fn = "mintWithMetadata" /\ chain.tx.status = "success"

\* A lookup of the deployment script or of the waiting mint() has just found
\* no receipt or failed.
DeployLookupWithoutReceipt ==
    /\ deployRun.pc = "polling"
    /\ deployRun'.attempts = deployRun.attempts + 1
    /\ deployRun'.receipt = NoReceipt

MintWaitEnded ==
    /\ mintCall.pc = "AwaitingConfirmation"
    /\ mintCall'.pc # "AwaitingConfirmation"

-----------------------------------------------------------------------------
(* Properties of calls running side by side *)

\* Both calls of mint() resolved with a token id, on the same contract.
BothMinted ==
    /\ \A p \in Callers : world.call[p].pc = "Resolved" /\ world.call[p].tokenId # <<>>
    /\ world.call[1].contractAddress = world.call[2].contractAddress

-----------------------------------------------------------------------------
(* Properties of the discovery of retrieve() *)

DiscoveryStates == {"ReadingBalance", "Indexing", "ReadingTotalSupply", "Scanning"}

\* C25 as stated: a failure of the balance read and a failure of the
\* total-supply read make retrieve() fail; a failed per-index lookup and a
\* failed owner query of the scan do not.
C25_BalanceFailureSurfaces ==
    /\ [](retrieveCall.balanceFailed => retrieveCall.pc = "failed")
    /\ [][retrieveCall.pc = "ReadingTotalSupply" /\ retrieveCall'.pc # "ReadingTotalSupply"
            => retrieveCall'.pc = "failed" \/ retrieveCall'.scanRan]_vars
    /\ [](retrieveCall.indexFailed \/ retrieveCall.failedQueries # {}
            => retrieveCall.error.kind \in {"", "LedgerUnavailable"})

\* C25: a failure of the total-supply read makes retrieve() fail with
\* "Failed to retrieve tokens", and it is the only ledger read of the
\* discovery that does. A failure of the balance read is swallowed like a
\* failed per-index lookup: the call goes on to the scan; a failed owner query
\* of the scan skips that token id.
C25_OnlyTotalSupplyFailureSurfaces ==
    /\ [][retrieveCall.pc = "ReadingTotalSupply" /\ retrieveCall'.pc # "ReadingTotalSupply"
            => \/ retrieveCall'.scanRan
               \/ /\ retrieveCall'.pc = "failed"
                  /\ retrieveCall'.error.message = "Failed to retrieve tokens"]_vars
    /\ [][retrieveCall.pc \in DiscoveryStates /\ retrieveCall'.pc = "failed"
            => retrieveCall.pc = "ReadingTotalSupply"]_vars
    /\ [][retrieveCall.pc = "ReadingBalance" /\ retrieveCall'.balanceFailed
            => retrieveCall'.pc = "ReadingTotalSupply" /\ retrieveCall'.error = NoError]_vars
    /\ [][retrieveCall.pc = "Indexing" /\ retrieveCall'.indexFailed
            => retrieveCall'.pc = "ReadingTotalSupply" /\ retrieveCall'.error = NoError]_vars
    /\ [][retrieveCall.pc = "Scanning"
             /\ retrieveCall'.failedQueries # retrieveCall.failedQueries
            => /\ retrieveCall'.pc \in {"Scanning", "FetchingMetadata", "done"}
               /\ retrieveCall'.tokenIds = retrieveCall.tokenIds]_vars

\* The balance read failed, the scan found the tokens of the wallet, and
\* retrieve() returned them.
C25_Witness ==
    /\ retrieveCall.balanceFailed
    /\ retrieveCall.pc = "done"
    /\ Len(retrieveCall.items) = 2
    /\ retrieveCall.failedQueries = {}

\* retrieve() returned after a balance read that answered b > 0 and b
\* per-index lookups that all answered.
IndexedPassSucceeded ==
    /\ retrieveCall.pc = "done"
    /\ ~retrieveCall.balanceFailed /\ retrieveCall.balanceNumber > 0
    /\ ~retrieveCall.indexFailed

\* C26: when the balance read answers b > 0 and the b per-index lookups all
\* answer, retrieve() returns b entries whose token ids are the ones the
\* contract reported for the indexes 0 to b-1, in that order, and the scan
\* did not run: totalSupply() was not read and no owner was queried.
C26_IndexedResultInContractOrder ==
    IndexedPassSucceeded =>
        LET owner == retrieveCall.walletAddress.v
            b == retrieveCall.balanceNumber
        IN /\ b = balanceOf(chain, owner)
           /\ itemIds(retrieveCall.items) =
                 [k \in 1..b |-> tokenOfOwnerByIndex(chain, owner, k - 1)]
           /\ ~retrieveCall.scanRan
           /\ retrieveCall.scanned = <<>> /\ retrieveCall.failedQueries = {}

\* The contract lists the two tokens of the wallet as 2, 1 and retrieve()
\* returned them in that order without scanning.
C26_Witness ==
    /\ IndexedPassSucceeded
    /\ chain.enumerable = "desc"
    /\ itemIds(retrieveCall.items) = <<2, 1>>
    /\ ~retrieveCall.scanRan

-----------------------------------------------------------------------------
(* Properties of retrieve() on a ledger that changes under it *)

\* The token ids of the entries retrieve() returned.
ResultSet == {retrieveCall.items[k].tokenId : k \in DOMAIN retrieveCall.items}

\* retrieve() returned what a scan discovered, every owner query answered.
ScanReturned ==
    /\ retrieveCall.pc = "done" /\ retrieveCall.scanRan
    /\ retrieveCall.failedQueries = {}

\* What the wallet held, of the ids the scan covers, at the instants between
\* the start and the end of the call.
Snapshots == {h \cap (1..retrieveCall.total) : h \in retrieveCall.heldSets}

\* C27: a scan has no snapshot isolation. Its result is the set the wallet
\* held at one instant of the call as long as the ledger did not change
\* during the call; with transfers between its owner queries it returns sets
\* the wallet held at no instant of the call (the state C27_Witness).
C27_SnapshotOnlyWithoutInterleaving ==
    ScanReturned /\ ResultSet \notin Snapshots => retrieveCall.ledgerChanges > 0

\* Token 1 left the wallet after its owner query and token 2 arrived before
\* its own: the scan returned {1, 2}, and the wallet never held both.
C27_Witness ==
    /\ ScanReturned
    /\ retrieveCall.ledgerChanges > 0
    /\ ResultSet = {1, 2}
    /\ \A h \in retrieveCall.heldSets : ResultSet # h \cap (1..retrieveCall.total)

\* retrieve() returned what a scan discovered.
ScanDone == retrieveCall.pc = "done" /\ retrieveCall.scanRan

\* The ids the scan covers that the wallet held from the start of the call to
\* this instant.
HeldThroughout == retrieveCall.heldThroughout \cap (1..retrieveCall.total)

\* C28 as stated: however transfers and mints interleave with a scan, every
\* id in the result was held by the wallet at some instant of the call, and
\* every id of 1..total the wallet held throughout the call is in the result.
C28_ScanBoundsUnderInterleaving ==
    ScanDone =>
        /\ ResultSet \subseteq UNION retrieveCall.heldSets
        /\ HeldThroughout \subseteq ResultSet

\* C28: however transfers and mints interleave with a scan, every id in the
\* result was held by the wallet at some instant of the call, and every id of
\* 1..total the wallet held throughout the call and whose owner query was
\* answered is in the result; an id whose owner query failed is left out
\* even when the wallet held it throughout.
C28_ScanBoundsForAnsweredQueries ==
    ScanDone =>
        /\ ResultSet \subseteq UNION retrieveCall.heldSets
        /\ HeldThroughout \ retrieveCall.failedQueries \subseteq ResultSet
        /\ ResultSet \cap retrieveCall.failedQueries = {}

\* The ledger changed twice under the scan; token 1, which the wallet held
\* throughout, is in the result, and token 2, which it held at one instant
\* only, is too.
C28_Witness ==
    /\ ScanDone
    /\ retrieveCall.ledgerChanges = 2
    /\ retrieveCall.failedQueries = {}
    /\ HeldThroughout = {1}
    /\ ResultSet = {1, 2}

\* C29: the list retrieve() returns never holds the same token id twice,
\* whether the indexed pass or the scan discovered it, also when transfers
\* and mints interleave with the lookups.
C29_NoDuplicateIds ==
    retrieveCall.pc = "done" =>
        \A j, k \in DOMAIN retrieveCall.items :
            retrieveCall.items[j].tokenId = retrieveCall.items[k].tokenId => j = k

\* The contract lists the newest token first: index 0 answered 2, token 3
\* was minted to the wallet, index 1 answered 2 again, and retrieve()
\* returned the ids 2, 2.
C29_Witness ==
    /\ retrieveCall.pc = "done"
    /\ ~retrieveCall.scanRan
    /\ retrieveCall.ledgerChanges > 0
    /\ chain.enumerable = "desc"
    /\ itemIds(retrieveCall.items) = <<2, 2>>

-----------------------------------------------------------------------------
(* Properties of the configuration of calls running side by side *)

\* The contract address the precedence gives call p from its own config and
\* deployment.json.
ResolvedAddress(p) == Preferred(world.call[p].config.contractAddress, files.deployment)

\* The two calls resolve to different contracts.
DifferentContracts == ResolvedAddress(1) # ResolvedAddress(2)

\* What the transaction of call p, and nothing else, leaves in a freshly
\* deployed contract.
AloneContract(p) ==
    IF world.tx[p].status = "success"
    THEN GameItemMint(GameItem(TRUE), world.tx[p].to, world.tx[p].metadata)
    ELSE GameItem(TRUE)

\* The token id call p returns when no other call runs: the id of the
\* Transfer event of its transaction, or what the total-supply fallback
\* makes of the supply its own mint left, or none when that read failed.
AloneTokenIds(p) ==
    IF \E k \in DOMAIN world.call[p].ledgerOps : world.call[p].ledgerOps[k] = "totalSupply"
    THEN {tokenIdFromSupply(totalSupply(AloneContract(p))), <<>>}
    ELSE {<<AloneContract(p)._nextTokenId - 1>>}

\* C30: the ledger operations of a call of mint() go only to the contract
\* address and the endpoint resolved from the call's own config and the
\* persisted defaults, whatever the other call was given; and when two
\* calls running side by side resolve to different contracts, each contract
\* holds what the transaction of its own call alone left in it and each call
\* returns the token id it returns when running alone.
C30_CallsUseOwnConfiguration ==
    \A p \in Callers :
        /\ world.touched[p] \subseteq {ResolvedAddress(p).v}
        /\ world.call[p].pc \notin {"idle", "LoadingConfig", "Failed"} =>
              /\ world.call[p].contractAddress = ResolvedAddress(p)
              /\ world.call[p].rpcUrl
                    = Preferred(world.call[p].config.rpcUrl, "https://polygon-rpc.com/")
        /\ DifferentContracts =>
              /\ world.contracts[ResolvedAddress(p).v] = AloneContract(p)
              /\ world.call[p].pc = "Resolved" =>
                    world.call[p].tokenId \in AloneTokenIds(p)

\* Call 1 was given no contract address and no endpoint, call 2 the other
\* deployment and another endpoint: both minted, each on its own contract
\* through its own endpoint, and each got token 1 of it.
C30_Witness ==
    /\ \A p \in Callers : world.call[p].pc = "Resolved"
    /\ world.call[1].config.contractAddress = Undefined
    /\ world.call[2].config.contractAddress = Str(OtherContractAddress)
    /\ world.call[1].rpcUrl = Str("https://polygon-rpc.com/")
    /\ world.call[2].rpcUrl = Str("https://rpc.example/")
    /\ world.touched[1] = {ContractAddress}
    /\ world.touched[2] = {OtherContractAddress}
    /\ \A a \in ContractAddresses : totalSupply(world.contracts[a]) = 1
    /\ world.call[1].tokenId = <<1>> /\ world.call[2].tokenId = <<1>>

-----------------------------------------------------------------------------
(* Properties of the token ids and the supply of the GameItem contract *)

\* The ledger has just run the pending call and it went through.
MintIncluded == chain.tx.status = "pending" /\ chain'.tx.status = "success"

\* The ledger has just run the pending call and it reverted.
MintReverted == chain.tx.status = "pending" /\ chain'.tx.status = "reverted"

\* C31: token ids are assigned as the dense sequence 1, 2, 3, ... across
\* mint, safeMint and mintWithMetadata: the tokens that exist are always
\* 1 to the number minted, the k-th successful mint receives id k, an id
\* that was assigned is not assigned again, and a reverted mint consumes no
\* id.
C31_DenseIncreasingIds ==
    /\ [](DOMAIN chain.owners = 1..Cardinality(DOMAIN chain.owners))
    /\ [][MintIncluded =>
            /\ chain'.tx.tokenId = Cardinality(DOMAIN chain.owners) + 1
            /\ chain'.tx.tokenId \notin DOMAIN chain.owners
            /\ DOMAIN chain'.owners = DOMAIN chain.owners \cup {chain'.tx.tokenId}
            /\ \A t \in DOMAIN chain.owners : chain'.owners[t] = chain.owners[t]]_vars
    /\ [][MintReverted =>
            /\ chain'._nextTokenId = chain._nextTokenId
            /\ chain'.owners = chain.owners]_vars

\* The second successful mint, a call of mintWithMetadata, received id 2.
C31_Witness ==
    /\ chain.tx.status = "success"
    /\ chain.tx.fn = "mintWithMetadata"
    /\ chain.tx.tokenId = 2
    /\ DOMAIN chain.owners = {1, 2}

\* The number of tokens the contract has minted so far.
Minted == Cardinality(DOMAIN chain.owners)

\* The ledger has just run a mint that was attempted when MAX_SUPPLY tokens
\* existed.
MintAttemptedAtCap ==
    /\ chain.tx.status = "pending" /\ chain'.tx.status # "pending"
    /\ Minted = MAX_SUPPLY

\* C32: in every reachable state of the contract totalSupply() is the
\* number of tokens minted so far and is at most MAX_SUPPLY; a mint
\* attempted when MAX_SUPPLY tokens exist reverts and leaves the supply, the
\* owners and the metadata as they were.
C32_SupplyCountsMintsUpToCap ==
    /\ [](/\ totalSupply(chain) = Minted
          /\ DOMAIN chain.tokenURIs = DOMAIN chain.owners
          /\ totalSupply(chain) <= MAX_SUPPLY)
    /\ [][MintAttemptedAtCap =>
            /\ chain'.tx.status = "reverted"
            /\ totalSupply(chain') = totalSupply(chain)
            /\ chain'.owners = chain.owners
            /\ chain'.tokenURIs = chain.tokenURIs]_vars

\* The owner minted the last token the cap allows and then called safeMint
\* once more: the call reverted and the supply is MAX_SUPPLY.
C32_Witness ==
    /\ chain.tx.status = "reverted"
    /\ chain.tx.sender = OwnerAccount /\ chain.tx.fn = "safeMint"
    /\ totalSupply(chain) = MAX_SUPPLY
    /\ Minted = MAX_SUPPLY

-----------------------------------------------------------------------------
(* Properties of getItem() on metadata that cannot be read *)

\* getItem() was asked for a token that exists, with a contract address to
\* go to, and the token URI of that token cannot be fetched or parsed.
UnreadableMetadataAsked ==
    /\ getItemCall.pc # "idle"
    /\ validateTokenId(getItemCall.tokenId) = NoError
    /\ exists(chain, toNumber(getItemCall.tokenId))
    /\ getItemDecode(tokenURI(chain, toNumber(getItemCall.tokenId))).kind
          \in {"throws", "null"}

\* C33: getItem() on an existing token whose metadata cannot be fetched or
\* parsed does not fail for that reason: once the owner is read it returns
\* the token id and the owner with metadata null, and with an error that
\* describes the failure.
C33_UnreadableMetadataCarriesError ==
    UnreadableMetadataAsked /\ getItemCall.pc = "done" =>
        /\ getItemCall.result.tokenId = toNumber(getItemCall.tokenId)
        /\ getItemCall.result.owner = ownerOf(chain, toNumber(getItemCall.tokenId))
        /\ getItemCall.result.metadata = NullMetadata
        /\ getItemCall.result.error # Absent

\* getItem() returned token 1 and its owner with metadata null, and nothing
\* in the result tells of the failure.
C33_Witness ==
    /\ UnreadableMetadataAsked /\ getItemCall.pc = "done"
    /\ getItemCall.result.tokenId = 1
    /\ getItemCall.result.owner = ownerOf(chain, 1)
    /\ getItemCall.result.metadata = NullMetadata
    /\ getItemCall.result.error = Absent

-----------------------------------------------------------------------------
(* Properties of the metadata mint() writes *)

\* mint() has built the metadata string of the call.
MetadataBuilt == mintCall.metadataJson # NoBlob

\* The object the metadata string of the call carries.
WrittenMetadata == mintCall.metadataJson.obj

\* The transaction of the call was included: the contract stores the
\* metadata string of the call for the new token.
MetadataStored ==
    /\ MetadataBuilt
    /\ chain.tx.status = "success"
    /\ mintCall.pc \in {"AwaitingConfirmation", "ExtractingTokenId", "ReadingTotalSupply",
                        "Resolved"}

\* C34 as stated: the metadata written at mint has name equal to traits.name
\* or else "Game Item", description equal to traits.description or else the
\* empty string, image equal to the imageUrl argument, and traits equal to
\* the traits argument.
C34_MetadataDefaultsEmptyDescription ==
    MetadataBuilt =>
        /\ WrittenMetadata.name = OrElse(mintCall.traits.name, "Game Item")
        /\ WrittenMetadata.description = OrElse(mintCall.traits.description, "")
        /\ WrittenMetadata.image = mintCall.imageUrl.v
        /\ WrittenMetadata.traits = mintCall.traits

\* C34: the metadata written at mint has name equal to traits.name or else
\* "Game Item", description equal to traits.description or else
\* "A game item NFT", image equal to the imageUrl argument, and traits equal
\* to the traits argument as JSON carries it: equal to the argument when
\* every member is JSON-representable, without the members that are
\* undefined and with null for NaN otherwise. The contract stores that
\* string for the token of the call.
C34_MetadataDefaults ==
    /\ MetadataBuilt =>
          /\ WrittenMetadata.name = OrElse(mintCall.traits.name, "Game Item")
          /\ WrittenMetadata.description
                = OrElse(mintCall.traits.description, "A game item NFT")
          /\ WrittenMetadata.image = mintCall.imageUrl.v
          /\ WrittenMetadata.traits = JsonTraits(mintCall.traits)
          /\ JsonRepresentable(mintCall.traits) =>
                WrittenMetadata.traits = mintCall.traits
    /\ MetadataStored =>
          tokenURI(chain, chain.tx.tokenId) = mintCall.metadataJson

\* mint() was given traits with a name and no description: the token the
\* contract stores has that name and the description "A game item NFT".
C34_Witness ==
    /\ MetadataStored /\ mintCall.pc = "Resolved"
    /\ mintCall.traits = Traits("object", "Sword", Absent, "100")
    /\ tokenURI(chain, chain.tx.tokenId).obj
          = Metadata("Sword", "A game item NFT", "https://x/sword.png", mintCall.traits)

-----------------------------------------------------------------------------
(* Properties of the audit logs *)

\* The handler of POST /api/mint has just answered a request that passed
\* authentication and the request-level field checks.
MintHandled ==
    /\ server.pc = "handler" /\ server'.pc = "responded"
    /\ server.request.route = "POST /api/mint"
    /\ server.authenticated
    /\ fieldsPresent(server.request, server.body)

\* The last line of a log.
Last(log) == log[Len(log)]

RetrieveHandled ==
    /\ server.pc = "handler" /\ server'.pc = "responded"
    /\ coreOperation(server.request.route) = "retrieve"
    /\ server'.called = "retrieve"

\* C36: GET /api/retrieve/:walletAddress and POST /api/retrieve are
\* equivalent. For the same wallet address and the same outcome of
\* retrieve() on the ledger, either route answers with the same status and
\* body, and either adds one line to the retrieve log, for a call that
\* returned as for a call that raised.
C36_RetrieveRoutesEquivalent ==
    [][RetrieveHandled =>
          /\ server'.status = (IF server'.error = NoError THEN 200 ELSE 500)
          /\ server'.retrieveLog =
                Append(server.retrieveLog,
                       RetrieveLogEntry(handlerParam(server.request, server.body).v,
                                        server'.error = NoError,
                                        sanitize(server'.error.message)))]_vars

\* POST /api/retrieve was answered with the items of the wallet, and the
\* retrieve log has no line.
C36_Witness ==
    /\ server.pc = "responded"
    /\ server.request.route = "POST /api/retrieve"
    /\ server.called = "retrieve"
    /\ server.error = NoError /\ server.status = 200
    /\ server.retrieveLog = <<>>

====
